---------------------------- MODULE Spec2Model ----------------------------
(***************************************************************************)
(* Content assembly pipeline of planwrite-v2: outline planner, outline     *)
(* text round trip, switchboard link injector, draft executor, compliance  *)
(* validator and internal link index.                                      *)
(*                                                                         *)
(* Strings are sequences of atoms.  An atom is either a single significant *)
(* character (",", " ", "[", ...), or a word / opaque chunk of text that   *)
(* holds none of the characters and phrases the code looks for.            *)
(***************************************************************************)
EXTENDS Integers, Sequences, FiniteSets, TLC

VARIABLES
    plan_pc,        \* "idle" | "done": generate_structured_outline has returned
    plan_src,       \* "none" | "provider" | "fallback": which path built the result
    plan_repaired,  \* local `outline` after _ensure_shortcodes (outline.py:424)
    plan_out        \* the outline returned to the caller

planVars == <<plan_pc, plan_src, plan_repaired, plan_out>>

VARIABLES
    rt_pc,          \* "start", "encoded", "decoded"
    rt_outline,     \* the outline handed to outline_to_text
    rt_text,        \* the editable text
    rt_back         \* the outline text_to_outline parses from rt_text

rtVars == <<rt_pc, rt_outline, rt_text, rt_back>>

VARIABLES
    inj_pc,         \* "start", "once", "twice"
    inj_doc,        \* the document handed to the first application
    inj_args,       \* [enabled, has_code, max_links]
    inj_out1,       \* result of the first application
    inj_out2        \* result of applying the injector to inj_out1

injVars == <<inj_pc, inj_doc, inj_args, inj_out1, inj_out2>>

VARIABLES
    d_pc,           \* "sections", "done", "raised"
    d_req,          \* the request: [mode, outline, all_offers, state, pm, needs_links];
                    \* needs_links: the property has guaranteed links
    d_i,            \* index of the next outline section
    d_parts,        \* parts appended so far
    d_seen,         \* seen_headings
    d_last,         \* the shortcode section handled last: [level, block]
    d_out,          \* the returned document / the done event's draft
    d_events,       \* types of the events the streaming executor has yielded
    d_acc,          \* [previous_content, keyword_count]
    d_calls,        \* indices of the sections a provider call was made for
    d_ctx,          \* what each of those calls was given: [previous_content, keyword_count]
    d_twin          \* the parts of the other executor, run on the same request and
                    \* given the same provider responses

draftVars == <<d_pc, d_req, d_i, d_parts, d_seen, d_last, d_out, d_events, d_acc, d_calls,
               d_ctx, d_twin>>

VARIABLES
    c_pc,           \* "start", "done"
    c_in,           \* [content, offer, keyword, check_links]
    c_result        \* the ComplianceResult: [valid, issues, compliance_score]

compVars == <<c_pc, c_in, c_result>>

VARIABLES
    l_pc,           \* "start", "embedding", "done"
    l_disk,         \* the files of the property: [state, items] of the index, source JSONL
    l_store,        \* the InternalLinksStore: [items, vectors, loaded]
    l_req,          \* the arguments of suggest_links: [brand, k]
    l_required,     \* suggest_links's local list of required links
    l_attempt,      \* attempts the embedding request has made
    l_out           \* what suggest_links gave its caller: [raised, links], and its ranked_idx

linkVars == <<l_pc, l_disk, l_store, l_req, l_required, l_attempt, l_out>>

VARIABLES
    g_pc,           \* generate_structured_outline: "entry", "prompts", "call", "raised"
    g_args,         \* its arguments: [keyword, event_context, bet_example, competitor_context, pm]
    g_rag           \* its local rag_context

callVars == <<g_pc, g_args, g_rag>>

VARIABLES
    s_pc,           \* one section of the executor's loop: "start", "dispatch", "done", "raised"
    s_in,           \* [level, title, offer, pm]
    s_calls,        \* the provider calls made for the section, in order
    s_out           \* the section's content

secVars == <<s_pc, s_in, s_calls, s_out>>

VARIABLES
    st_pc,          \* extract_states_from_terms: "start", "done"
    st_terms,       \* the terms text
    st_out          \* the list of state codes returned

stVars == <<st_pc, st_terms, st_out>>

VARIABLES
    rq_pc,          \* get_required_links: "start", "done"
    rq_store,       \* the InternalLinksStore: [items, vectors, loaded]
    rq_disk,        \* the files of the property: [state, items, source]
    rq_out          \* the list of required links returned

reqVars == <<rq_pc, rq_store, rq_disk, rq_out>>

VARIABLES
    ap_pc,          \* _append_required_property_links: "start", "done"
    ap_in,          \* [html, required, pm]: the joined parts, the property's links, the mode
    ap_out          \* the document returned

apVars == <<ap_pc, ap_in, ap_out>>

VARIABLES
    try_pc,         \* _with_openai_retries: "call", "sleep", "returned", "raised"
    try_attempt,    \* the loop variable attempt
    try_log,        \* what each await fn() did: [kind, value], in order
    try_slept,      \* the arguments of the asyncio.sleep calls, in milliseconds
    try_out         \* the value returned or the exception raised: [kind, value]

tryVars == <<try_pc, try_attempt, try_log, try_slept, try_out>>

VARIABLES
    ix_store,       \* the one store of the property: [items, vectors, loaded]
    ix_disk,        \* the index files: [state, json, vec]
    ix_tasks,       \* the cooperative tasks: [kind, pc, items] each
    ix_ranked,      \* the arrays each suggest_links call ranked against: [items, vectors]
    ix_next         \* the number of the next ingest that reads its source

ixVars == <<ix_store, ix_disk, ix_tasks, ix_ranked, ix_next>>

vars == <<planVars, rtVars, injVars, draftVars, compVars, linkVars, callVars, secVars, stVars, reqVars, apVars, tryVars, ixVars>>

\* what each component leaves alone
planRest == <<rtVars, injVars, draftVars, compVars, linkVars, callVars, secVars, stVars, reqVars, apVars, tryVars, ixVars>>
rtRest == <<planVars, injVars, draftVars, compVars, linkVars, callVars, secVars, stVars, reqVars, apVars, tryVars, ixVars>>
injRest == <<planVars, rtVars, draftVars, compVars, linkVars, callVars, secVars, stVars, reqVars, apVars, tryVars, ixVars>>
draftRest == <<planVars, rtVars, injVars, compVars, linkVars, callVars, secVars, stVars, reqVars, apVars, tryVars, ixVars>>
compRest == <<planVars, rtVars, injVars, draftVars, linkVars, callVars, secVars, stVars, reqVars, apVars, tryVars, ixVars>>
linkRest == <<planVars, rtVars, injVars, draftVars, compVars, callVars, secVars, stVars, reqVars, apVars, tryVars, ixVars>>
callRest == <<planVars, rtVars, injVars, draftVars, compVars, linkVars, secVars, stVars, reqVars, apVars, tryVars, ixVars>>
secRest == <<planVars, rtVars, injVars, draftVars, compVars, linkVars, callVars, stVars, reqVars, apVars, tryVars, ixVars>>
stRest == <<planVars, rtVars, injVars, draftVars, compVars, linkVars, callVars, secVars, reqVars, apVars, tryVars, ixVars>>
reqRest == <<planVars, rtVars, injVars, draftVars, compVars, linkVars, callVars, secVars, stVars, apVars, tryVars, ixVars>>
apRest == <<planVars, rtVars, injVars, draftVars, compVars, linkVars, callVars, secVars, stVars, reqVars, tryVars, ixVars>>
tryRest == <<planVars, rtVars, injVars, draftVars, compVars, linkVars, callVars, secVars, stVars, reqVars, apVars, ixVars>>
ixRest == <<planVars, rtVars, injVars, draftVars, compVars, linkVars, callVars, secVars, stVars, reqVars, apVars, tryVars>>

(***************************************************************************)
(* Bounds                                                                  *)
(***************************************************************************)
MaxSections == 3

(***************************************************************************)
(* Generic helpers                                                         *)
(***************************************************************************)
Max(a, b) == IF a >= b THEN a ELSE b
Min(a, b) == IF a <= b THEN a ELSE b

SeqsUpTo(S, n) == UNION {[1..k -> S] : k \in 0..n}

InsertAt(s, idx, e) ==
    \* Python list.insert(idx, e) with 0-based idx in 0..len(s)
    SubSeq(s, 1, idx) \o <<e>> \o SubSeq(s, idx + 1, Len(s))

\* str.lower() on the words the code's phrase tests can see
Lower(w) ==
    CASE w = "How" -> "how"
      [] w = "Claim" -> "claim"
      [] w = "Use" -> "use"
      [] w = "Daily" -> "daily"
      [] w = "Promos" -> "promos"
      [] w = "Today" -> "today"
      [] w = "Sign" -> "sign"
      [] w = "Up" -> "up"
      [] w = "Terms" -> "terms"
      [] w = "Conditions" -> "conditions"
      [] w = "Eligibility" -> "eligibility"
      [] w = "Key" -> "key"
      [] w = "Details" -> "details"
      [] w = "Overview" -> "overview"
      [] w = "A" -> "a"
      [] w = "Register" -> "register"
      [] w = "Fine" -> "fine"
      [] w = "Print" -> "print"
      [] w = "Midterms" -> "midterms"
      [] w = "Best " -> "best "
      [] w = "Betting" -> "betting"
      [] w = " Sites" -> " sites"
      [] w = "Legal Sports " -> "legal sports "
      [] w = " States" -> " states"
      [] w = "Bet" -> "bet"
      [] w = "Bets" -> "bets"
      [] w = "Bonus" -> "bonus"
      [] w = "Sportsbook" -> "sportsbook"
      [] w = "Sportsbooks" -> "sportsbooks"
      [] OTHER -> w

LowerStr(s) == [i \in DOMAIN s |-> Lower(s[i])]

\* p is a character prefix of word w (on the model's vocabulary)
WordStartsWith(w, p) == w = p \/ (p = "promo" /\ w = "promos")

\* Python `phrase in text` for a phrase of whole words: the phrase may end
\* inside a longer word ("daily promo" in "daily promos today")
ContainsPhrase(s, p) ==
    \E i \in 1..(Len(s) - Len(p) + 1) :
        /\ \A j \in 1..(Len(p) - 1) : s[i + j - 1] = p[j]
        /\ WordStartsWith(s[i + Len(p) - 1], p[Len(p)])

(***************************************************************************)
(* Outline planner (app/services/outline.py)                               *)
(***************************************************************************)
Section(level, title, points, avoid) ==
    [level |-> level, title |-> title, talking_points |-> points, avoid |-> avoid]

EmptyShortcode == Section("shortcode", <<>>, <<>>, <<>>)

SyntheticIntro ==
    Section("intro", <<>>,
            << <<"Hook with date and offer value">>, <<"Mention promo code twice">> >>,
            <<>>)

_headline_topic(keyword, brand, pm) ==
    IF keyword # <<>> THEN keyword
    ELSE IF brand # <<>> THEN brand \o <<"promo", "code">>
    ELSE IF pm THEN <<"prediction", "market", "promo", "code">>
    ELSE <<"sportsbook", "promo", "code">>

\* matchup is the string _extract_matchup_from_event_context returns (<<>> if none)
_contextual_section_titles(keyword, brand, matchup, pm) ==
    LET topic == _headline_topic(keyword, brand, pm)
        claim_title ==
            IF pm /\ matchup # <<>> THEN <<"How", "to", "Use">> \o topic \o <<"for">> \o matchup
            ELSE IF pm THEN <<"How", "to", "Use">> \o topic \o <<"for", "Any", "Market">>
            ELSE IF matchup # <<>> THEN <<"How", "to", "Claim">> \o topic \o <<"for">> \o matchup
            ELSE <<"How", "to", "Claim">> \o topic \o <<"for", "Any", "Sport">>
        terms_title == IF pm THEN <<"Terms", "&", "Eligibility">>
                             ELSE <<"Terms", "&", "Conditions">>
        overview_no_matchup ==
            IF pm THEN topic \o <<":", "Promo", "for", "Top", "Markets", "Today">>
                  ELSE topic \o <<":", "Get", "Bonus", "for", "All", "Sports", "Today">>
    IN  IF matchup # <<>>
        THEN [overview |-> topic \o <<"for">> \o matchup,
              claim |-> claim_title,
              signup |-> <<"How", "to", "Sign", "Up", "Before">> \o matchup,
              daily_promos |-> <<"Daily", "Promos", "Today">>,
              terms |-> terms_title]
        ELSE [overview |-> overview_no_matchup,
              claim |-> claim_title,
              signup |-> <<"How", "to", "Sign", "Up", "for">> \o topic,
              daily_promos |-> <<"Daily", "Promos", "Today">>,
              terms |-> terms_title]

\* loop body of _ensure_shortcodes, sections i..Len(outline); st = [result, h2c, has_intro]
\* variant of H2RunFull that lets a third h2 through
H2RunFullAfterThree(h2_count_since_shortcode) == h2_count_since_shortcode >= 3

\* "we've had 2+ H2s since last shortcode"
H2RunFull(h2_count_since_shortcode) == h2_count_since_shortcode >= 2

RECURSIVE EnsureLoop(_, _, _)
EnsureLoop(outline, i, st) ==
    IF i > Len(outline) THEN st
    ELSE
      LET section == outline[i]
          level == section.level
          next ==
            IF level = "intro" THEN
                IF i + 1 <= Len(outline) /\ outline[i + 1].level # "shortcode"
                THEN [result |-> st.result \o <<section, EmptyShortcode>>,
                      h2c |-> 0, has_intro |-> TRUE]
                ELSE [result |-> Append(st.result, section),
                      h2c |-> st.h2c, has_intro |-> TRUE]
            ELSE IF level = "shortcode" THEN
                [result |-> Append(st.result, section), h2c |-> 0,
                 has_intro |-> st.has_intro]
            ELSE IF level = "h2" THEN
                IF H2RunFull(st.h2c)
                THEN [result |-> st.result \o <<EmptyShortcode, section>>,
                      h2c |-> 1, has_intro |-> st.has_intro]
                ELSE [result |-> Append(st.result, section),
                      h2c |-> st.h2c + 1, has_intro |-> st.has_intro]
            ELSE [result |-> Append(st.result, section), h2c |-> st.h2c,
                  has_intro |-> st.has_intro]
      IN EnsureLoop(outline, i + 1, next)

EnsureIntroMissingFix(st) ==
    IF ~st.has_intro /\ st.result # <<>> /\ st.result[1].level # "intro"
    THEN <<SyntheticIntro, EmptyShortcode>> \o st.result
    ELSE st.result

_ensure_shortcodes(outline) ==
    IF outline = <<>> THEN outline
    ELSE EnsureIntroMissingFix(
            EnsureLoop(outline, 1, [result |-> <<>>, h2c |-> 0, has_intro |-> FALSE]))


\* first loop of _apply_editorial_section_rules, sections i..Len(outline)
\* st = [cleaned, has_daily_promos, has_claim, has_signup, has_terms, first_h2_idx]
RECURSIVE EditorialLoop(_, _, _, _)
EditorialLoop(outline, titles, i, st) ==
    IF i > Len(outline) THEN st
    ELSE
      LET section == outline[i]
          level == section.level
          title_lower == LowerStr(section.title)
          isClaim == ContainsPhrase(title_lower, <<"how", "to", "claim">>)
                     \/ ContainsPhrase(title_lower, <<"how", "to", "use">>)
          isDaily == ContainsPhrase(title_lower, <<"daily", "promo">>)
                     \/ ContainsPhrase(title_lower, <<"promos", "today">>)
          isSignup == ContainsPhrase(title_lower, <<"how", "to", "sign">>)
                      \/ ContainsPhrase(title_lower, <<"sign", "up">>)
                      \/ ContainsPhrase(title_lower, <<"register">>)
          isTerms == ContainsPhrase(title_lower, <<"terms">>)
                     \/ ContainsPhrase(title_lower, <<"conditions">>)
                     \/ ContainsPhrase(title_lower, <<"fine", "print">>)
          h2 == level = "h2"
          fidx == IF h2 /\ st.first_h2_idx = -1 THEN Len(st.cleaned)
                  ELSE st.first_h2_idx
          normalized ==
              IF ~h2 THEN section
              ELSE IF isClaim THEN [section EXCEPT !.title = titles.claim]
              ELSE IF isDaily THEN [section EXCEPT !.title = titles.daily_promos]
              ELSE IF isSignup THEN [section EXCEPT !.title = titles.signup]
              ELSE IF isTerms THEN [section EXCEPT !.title = titles.terms]
              ELSE section
          next ==
              IF h2 /\ (ContainsPhrase(title_lower, <<"key", "details">>)
                        \/ ContainsPhrase(title_lower, <<"eligibility">>))
              THEN st
              ELSE [cleaned |-> Append(st.cleaned, normalized),
                    has_claim |-> st.has_claim \/ (h2 /\ isClaim),
                    has_daily_promos |-> st.has_daily_promos \/ (h2 /\ ~isClaim /\ isDaily),
                    has_signup |-> st.has_signup
                                   \/ (h2 /\ ~isClaim /\ ~isDaily /\ isSignup),
                    has_terms |-> st.has_terms
                                  \/ (h2 /\ ~isClaim /\ ~isDaily /\ ~isSignup /\ isTerms),
                    first_h2_idx |-> fidx]
      IN EditorialLoop(outline, titles, i + 1, next)

\* cleaned[first_h2_idx] gets the overview title (outline.py:188-192)
RetitleFirstH2(st, titles) ==
    IF st.first_h2_idx >= 0 /\ st.cleaned[st.first_h2_idx + 1].level = "h2"
    THEN [st.cleaned EXCEPT ![st.first_h2_idx + 1].title = titles.overview]
    ELSE st.cleaned

DefaultClaimSection(titles, pm) ==
    Section("h2", titles.claim,
            << <<IF pm THEN "Worked example with contract settlement outcomes"
                       ELSE "Worked example with win/loss outcomes">>,
               <<IF pm THEN "How promo credits apply to eligible market positions"
                       ELSE "How bonus credits are applied">> >>,
            << <<"Rewriting legal terms">> >>)

DefaultDailySection(titles, pm) ==
    Section("h2", titles.daily_promos,
            << <<"Placeholder for today's rotating promos">>,
               <<IF pm THEN "List operator" ELSE "List sportsbook", ",", " ",
                 "promo code", ",", " ", "and eligible states">>,
               <<"Update this section daily before publishing">> >>,
            << <<"Using stale promos from prior days">> >>)

DefaultSignupSection(titles, pm) ==
    Section("h2", titles.signup,
            << <<"Five-step registration flow">>,
               <<"Where to enter promo code">>,
               <<IF pm THEN "How to place first qualifying market position"
                       ELSE "How to place first qualifying bet">> >>,
            << <<"Deep legal terms">> >>)

DefaultTermsSection(titles, pm) ==
    Section("h2", titles.terms,
            << <<IF pm THEN "Reference official market terms"
                       ELSE "Reference official operator terms">>,
               <<IF pm THEN "State restrictions and settlement timelines"
                       ELSE "State restrictions and expiry windows">> >>,
            << <<"Repeating claim walkthrough">> >>)

\* 0-based index where the daily promos section is inserted (outline.py:222-229)
DailyInsertIdx(cleaned) ==
    LET hits == {idx \in 1..Len(cleaned) :
                    /\ cleaned[idx].level = "h2"
                    /\ \/ ContainsPhrase(LowerStr(cleaned[idx].title), <<"sign", "up">>)
                       \/ ContainsPhrase(LowerStr(cleaned[idx].title), <<"terms">>)}
    IN IF hits = {} THEN Len(cleaned)
       ELSE (CHOOSE m \in hits : \A n \in hits : m <= n) - 1

_apply_editorial_section_rules(outline, keyword, brand, matchup, pm) ==
    IF outline = <<>> THEN outline
    ELSE
      LET titles == _contextual_section_titles(keyword, brand, matchup, pm)
          st == EditorialLoop(outline, titles, 1,
                    [cleaned |-> <<>>, has_daily_promos |-> FALSE, has_claim |-> FALSE,
                     has_signup |-> FALSE, has_terms |-> FALSE, first_h2_idx |-> -1])
          c1 == RetitleFirstH2(st, titles)
          c2 == IF ~st.has_claim THEN Append(c1, DefaultClaimSection(titles, pm)) ELSE c1
          c3 == IF ~st.has_daily_promos
                THEN InsertAt(c2, DailyInsertIdx(c2), DefaultDailySection(titles, pm))
                ELSE c2
          c4 == IF ~st.has_signup THEN Append(c3, DefaultSignupSection(titles, pm)) ELSE c3
          c5 == IF ~st.has_terms THEN Append(c4, DefaultTermsSection(titles, pm)) ELSE c4
      IN c5

_get_default_outline(keyword, brand, matchup, bet_example, pm) ==
    LET titles == _contextual_section_titles(keyword, brand, matchup, pm)
    IN << Section("intro", <<>>,
            << <<"Hook with today's date and ">> \o brand \o <<" offer value">>,
               <<"Mention the promo code twice naturally">>,
               <<"State eligibility (21+", ",", " ", "new users", ",", " ",
                 "explicit eligible states)">> >>,
            <<>>),
          EmptyShortcode,
          Section("h2", titles.overview,
            << <<IF pm THEN "Why this offer is valuable for prediction-market users"
                       ELSE "Why this offer is valuable for bettors">>,
               <<"Timing advantage (sign up now)">>,
               <<"What makes it stand out from other promos">> >>,
            << <<"Step-by-step claiming instructions">>, <<"Full terms details">> >>),
          EmptyShortcode,
          Section("h2", titles.claim,
            << IF bet_example # <<>> THEN bet_example
               ELSE <<IF pm THEN "Worked example with a $50 market position"
                            ELSE "Worked example with $50 bet">>,
               <<IF pm THEN "Show settlement scenario with payout calculation"
                       ELSE "Show win scenario with profit calculation">>,
               <<IF pm THEN "Show loss scenario and how promo credits can be used"
                       ELSE "Show loss scenario with bonus bet receipt">> >>,
            << <<"Restating what the offer is">>, <<"Eligibility requirements">> >>),
          EmptyShortcode,
          Section("h2", titles.daily_promos,
            << <<"Placeholder for today's rotating promos (editor updates daily)">>,
               <<IF pm THEN "List operator" ELSE "List sportsbook", ",", " ", "offer",
                 ",", " ", "promo code", ",", " ", "and state availability">>,
               <<"Note expiration window for today's promos">> >>,
            << <<"Using stale promos from previous days">> >>),
          Section("h2", titles.signup,
            << <<"Step 1: Visit site/app">>,
               <<"Step 2: Click Join/Register">>,
               <<"Step 3: Enter promo code">>,
               <<"Step 4: Complete verification">>,
               <<IF pm THEN "Step 5: Fund account and place first market position"
                       ELSE "Step 5: Make deposit and place first bet">> >>,
            << <<"Offer details">>, <<"Terms explanation">> >>),
          Section("h2", titles.terms,
            << <<"Reference to full terms on operator site">>,
               <<"Key restrictions summary">>,
               <<IF pm THEN "Eligibility and settlement notes"
                       ELSE "Responsible gaming reminder with helpline">> >>,
            << <<"Eligibility (covered above)">>, <<"Claiming steps">> >>) >>


\* what the structured generation call can return for one section: the schema's
\* levels, the section titles the planner's prompt asks for, and other titles
ProviderH2Titles ==
    { <<"How", "to", "Claim", "K">>, <<"Daily", "Promos", "Today">>,
      <<"How", "to", "Sign", "Up">>, <<"Terms", "&", "Conditions">>,
      <<"Key", "Details">>, <<"K", "Overview">> }

ProviderSections ==
    { Section("intro", <<>>, << <<"p">> >>, <<>>),
      Section("shortcode", <<>>, <<>>, <<>>),
      Section("h3", <<"Example">>, << <<"p">> >>, <<>>) }
    \cup { Section("h2", t, << <<"p">> >>, << <<"x">> >>) : t \in ProviderH2Titles }

ProviderOutlines == SeqsUpTo(ProviderSections, MaxSections)

Keywords == { <<>>, <<"K">> }
Brands == { <<"B">> }
Matchups == { <<>>, <<"M">> }
BetExamples == { <<>>, <<"E">> }

PlanIdle ==
    /\ plan_pc = "idle"
    /\ plan_src = "none"
    /\ plan_repaired = <<>>
    /\ plan_out = <<>>

RtIdle ==
    /\ rt_pc = "start"
    /\ rt_outline = <<>>
    /\ rt_text = <<>>
    /\ rt_back = <<>>

InjIdle ==
    /\ inj_pc = "start"
    /\ inj_doc = <<>>
    /\ inj_args = [enabled |-> FALSE, has_code |-> FALSE, max_links |-> 0]
    /\ inj_out1 = <<>>
    /\ inj_out2 = <<>>

NoRequest ==
    [mode |-> "batch", outline |-> <<>>, all_offers |-> <<>>, state |-> "ALL",
     pm |-> FALSE, needs_links |-> FALSE]

NoShortcode == [level |-> <<>>, block |-> <<>>]

NoContent == [previous_content |-> <<>>, keyword_count |-> 0]

DraftIdle ==
    /\ d_pc = "sections"
    /\ d_req = NoRequest
    /\ d_i = 1
    /\ d_parts = <<>>
    /\ d_seen = {}
    /\ d_last = NoShortcode
    /\ d_out = <<>>
    /\ d_events = <<>>
    /\ d_acc = NoContent
    /\ d_calls = <<>>
    /\ d_ctx = <<>>
    /\ d_twin = <<>>

NoResult == [valid |-> TRUE, issues |-> <<>>, compliance_score |-> 100]

CompIdle ==
    /\ c_pc = "start"
    /\ c_in = [content |-> <<>>, offer |-> FALSE, keyword |-> FALSE, check_links |-> FALSE]
    /\ c_result = NoResult

NoStore == [items |-> <<>>, vectors |-> FALSE, loaded |-> FALSE]

NoLinks == [raised |-> FALSE, links |-> <<>>, ranked_idx |-> <<>>]

LinkIdle ==
    /\ l_pc = "start"
    /\ l_disk = [state |-> "missing", items |-> <<>>, source |-> <<>>]
    /\ l_store = NoStore
    /\ l_req = [brand |-> <<>>, k |-> 1]
    /\ l_required = <<>>
    /\ l_attempt = 0
    /\ l_out = NoLinks

CallIdle ==
    /\ g_pc = "entry"
    /\ g_args = [keyword |-> <<>>, event_context |-> <<>>, bet_example |-> <<>>,
                 competitor_context |-> <<>>, pm |-> FALSE]
    /\ g_rag = <<>>

NoOfferFacts ==
    [brand |-> <<>>, bonus_code |-> <<>>, shortcode |-> <<>>, terms |-> <<>>, bonus_expiration_days |-> <<>>,
     minimum_odds |-> <<>>, wagering_requirement |-> <<>>]

SecIdle ==
    /\ s_pc = "start"
    /\ s_in = [level |-> <<>>, title |-> <<>>, offer |-> NoOfferFacts, pm |-> FALSE]
    /\ s_calls = <<>>
    /\ s_out = <<>>

StIdle ==
    /\ st_pc = "start"
    /\ st_terms = <<>>
    /\ st_out = <<>>

ReqIdle ==
    /\ rq_pc = "start"
    /\ rq_store = NoStore
    /\ rq_disk = [state |-> "missing", items |-> <<>>, source |-> <<>>]
    /\ rq_out = <<>>

ApIdle ==
    /\ ap_pc = "start"
    /\ ap_in = [html |-> <<>>, required |-> <<>>, pm |-> FALSE]
    /\ ap_out = <<>>

TryIdle ==
    /\ try_pc = "call"
    /\ try_attempt = 0
    /\ try_log = <<>>
    /\ try_slept = <<>>
    /\ try_out = [kind |-> "none", value |-> ""]

IxIdle ==
    /\ ix_store = [items |-> [ingest |-> -1, len |-> 0], vectors |-> [ingest |-> -1, len |-> 0], loaded |-> FALSE]
    /\ ix_disk = [state |-> "missing", json |-> [ingest |-> -1, len |-> 0], vec |-> [ingest |-> -1, len |-> 0]]
    /\ ix_tasks = <<>>
    /\ ix_ranked = <<>>
    /\ ix_next = 1

PlanInit == PlanIdle /\ RtIdle /\ InjIdle /\ DraftIdle /\ CompIdle /\ LinkIdle /\ CallIdle /\ SecIdle /\ StIdle /\ ReqIdle /\ ApIdle /\ TryIdle /\ IxIdle

\* generate_structured_outline: one structured call, repair, editorial rules; the
\* default outline when the call (or anything after it) raises
GenerateStructuredOutline ==
    /\ plan_pc = "idle"
    /\ \E keyword \in Keywords, brand \in Brands, matchup \in Matchups, pm \in BOOLEAN :
         \/ \E resp \in ProviderOutlines :
                /\ plan_src' = "provider"
                /\ plan_repaired' = _ensure_shortcodes(resp)
                /\ plan_out' = _apply_editorial_section_rules(
                                   _ensure_shortcodes(resp), keyword, brand, matchup, pm)
         \/ \E bet_example \in BetExamples :
                /\ plan_src' = "fallback"
                /\ plan_repaired' = <<>>
                /\ plan_out' = _get_default_outline(keyword, brand, matchup, bet_example, pm)
    /\ plan_pc' = "done"
    /\ UNCHANGED planRest

PlanNext == GenerateStructuredOutline

SpecPlan == PlanInit /\ [][PlanNext]_vars

(***************************************************************************)
(* Outline shape predicates                                                *)
(***************************************************************************)
IsShortcodeLevel(level) == level \in {"shortcode", "shortcode_main", "shortcode_1", "shortcode_2"}

BeginsIntroShortcode(o) ==
    /\ Len(o) >= 2
    /\ o[1].level = "intro"
    /\ IsShortcodeLevel(o[2].level)

\* three h2 sections with no shortcode section between the first and the third
HasBareH2Triple(o) ==
    \E i, j, k \in 1..Len(o) :
        /\ i < j /\ j < k
        /\ o[i].level = "h2" /\ o[j].level = "h2" /\ o[k].level = "h2"
        /\ \A m \in i..k : ~IsShortcodeLevel(o[m].level)

HasFourIntentSections(o) ==
    \E keyword \in Keywords, brand \in Brands, matchup \in Matchups, pm \in BOOLEAN :
        LET titles == _contextual_section_titles(keyword, brand, matchup, pm)
        IN \A title \in {titles.claim, titles.daily_promos, titles.signup, titles.terms} :
              \E i \in 1..Len(o) : o[i].level = "h2" /\ o[i].title = title

\* C24: after editorial normalization of a non-empty outline the result holds
\* at least one h2 section for each of the intents claim, daily promos,
\* sign-up and terms, each under the canonical title of its intent.
C24_FourIntentSections ==
    (plan_pc = "done" /\ plan_src = "provider" /\ plan_repaired # <<>>)
        => HasFourIntentSections(plan_out)


(***************************************************************************)
(* Outline <-> editable text (outline_to_text, text_to_outline)            *)
(***************************************************************************)
IsSpace(a) == a \in {" ", "\n"}

RECURSIVE LStrip(_)
LStrip(s) == IF s # <<>> /\ IsSpace(s[1]) THEN LStrip(Tail(s)) ELSE s

RECURSIVE RStrip(_)
RStrip(s) ==
    IF s # <<>> /\ IsSpace(s[Len(s)]) THEN RStrip(SubSeq(s, 1, Len(s) - 1)) ELSE s

\* str.strip()
Strip(s) == RStrip(LStrip(s))

\* str.split(sep) for a one-atom separator: the pieces, empty ones included
RECURSIVE SplitOn(_, _, _, _)
SplitOn(s, sep, i, cur) ==
    IF i > Len(s) THEN <<cur>>
    ELSE IF s[i] = sep THEN <<cur>> \o SplitOn(s, sep, i + 1, <<>>)
    ELSE SplitOn(s, sep, i + 1, Append(cur, s[i]))

\* sep.join(items)
RECURSIVE Join(_, _)
Join(items, sep) ==
    IF items = <<>> THEN <<>>
    ELSE IF Len(items) = 1 THEN items[1]
    ELSE items[1] \o sep \o Join(Tail(items), sep)

\* str(level).upper() and .lower(), as the atoms of the bracket token
UpperLevel(level) ==
    CASE level = "intro" -> <<"INTRO">>
      [] level = "h2" -> <<"H2">>
      [] level = "h3" -> <<"H3">>
      [] level = "shortcode" -> <<"SHORTCODE">>
      [] level = "shortcode_main" -> <<"SHORTCODE", "_", "MAIN">>
      [] level = "shortcode_1" -> <<"SHORTCODE", "_", "1">>
      [] level = "shortcode_2" -> <<"SHORTCODE", "_", "2">>

LowerShortcode(tok) ==
    IF tok = <<"SHORTCODE">> THEN "shortcode"
    ELSE CASE tok[3] = "MAIN" -> "shortcode_main"
           [] tok[3] = "1" -> "shortcode_1"
           [] tok[3] = "2" -> "shortcode_2"

\* the lines outline_to_text emits for one section
SectionLines(section) ==
    LET level == section.level
        header ==
            IF level = "intro" THEN << <<"[", "INTRO", "]">> >>
            ELSE IF level \in {"shortcode", "shortcode_main", "shortcode_1", "shortcode_2"}
                 THEN << <<"[">> \o UpperLevel(level) \o <<"]">> >>
            ELSE IF level \in {"h2", "h3"}
                 THEN << <<"[">> \o UpperLevel(level) \o <<":", " ">> \o section.title
                         \o <<"]">> >>
            ELSE <<>>
        points == [i \in 1..Len(section.talking_points) |->
                      <<">", " ">> \o section.talking_points[i]]
        avoid == IF section.avoid # <<>>
                 THEN << <<"!", " ", "Avoid", ":", " ">>
                         \o Join(section.avoid, <<",", " ">>) >>
                 ELSE <<>>
    IN header \o points \o avoid \o << <<>> >>

RECURSIVE AllSectionLines(_)
AllSectionLines(outline) ==
    IF outline = <<>> THEN <<>>
    ELSE SectionLines(outline[1]) \o AllSectionLines(Tail(outline))

outline_to_text(outline) == Strip(Join(AllSectionLines(outline), <<"\n">>))

\* the section a header line opens, as a one-element sequence; <<>> when the
\* line is no header (the four re.match tests)
HeaderOf(line) ==
    IF line = <<"[", "INTRO", "]">>
    THEN << Section("intro", <<>>, <<>>, <<>>) >>
    ELSE IF \/ line = <<"[", "SHORTCODE", "]">>
            \/ (Len(line) = 5 /\ SubSeq(line, 1, 3) = <<"[", "SHORTCODE", "_">>
                /\ line[4] \in {"MAIN", "1", "2"} /\ line[5] = "]")
    THEN << Section(LowerShortcode(SubSeq(line, 2, Len(line) - 1)), <<>>, <<>>, <<>>) >>
    ELSE IF /\ Len(line) >= 5
            /\ line[1] = "[" /\ line[2] \in {"H2", "H3"} /\ line[3] = ":"
            /\ line[Len(line)] = "]"
    THEN << Section(IF line[2] = "H2" THEN "h2" ELSE "h3",
                    Strip(SubSeq(line, 4, Len(line) - 1)), <<>>, <<>>) >>
    ELSE <<>>

\* the items of an avoid directive line, or <<>> when the line is not one
AvoidItems(line) ==
    LET rest == LStrip(Tail(line))
    IN IF Len(rest) >= 2 /\ rest[1] = "Avoid" /\ rest[2] = ":"
          /\ LStrip(SubSeq(rest, 3, Len(rest))) # <<>>
       THEN LET parts == SplitOn(LStrip(SubSeq(rest, 3, Len(rest))), ",", 1, <<>>)
            IN [i \in 1..Len(parts) |-> Strip(parts[i])]
       ELSE <<>>

\* loop of text_to_outline over the lines; st = [outline, cur], cur being the
\* current section as a one-element sequence (<<>> before the first header)
RECURSIVE ParseLines(_, _, _)
ParseLines(lines, i, st) ==
    IF i > Len(lines)
    THEN st.outline \o st.cur
    ELSE
      LET line == Strip(lines[i])
          next ==
            IF line = <<>> THEN st
            ELSE IF HeaderOf(line) # <<>>
                 THEN [outline |-> st.outline \o st.cur, cur |-> HeaderOf(line)]
            ELSE IF line[1] = ">" /\ st.cur # <<>>
                 THEN IF Strip(Tail(line)) # <<>>
                      THEN [st EXCEPT !.cur[1].talking_points =
                                          Append(@, Strip(Tail(line)))]
                      ELSE st
            ELSE IF line[1] = "!" /\ st.cur # <<>>
                 THEN [st EXCEPT !.cur[1].avoid = @ \o AvoidItems(line)]
            ELSE st
      IN ParseLines(lines, i + 1, next)

text_to_outline(text) ==
    ParseLines(SplitOn(text, "\n", 1, <<>>), 1, [outline |-> <<>>, cur |-> <<>>])


MaxRtSections == 2
MaxRtPoints == 1
MaxRtAvoid == 2

\* strings a planner or an editor writes: one word, or a phrase with a comma
RtStrings == { <<"a">>, <<"a", ",", " ", "b">> }

RtSections ==
    { Section(l, t, p, a) :
        l \in {"h2", "h3"}, t \in RtStrings,
        p \in SeqsUpTo(RtStrings, MaxRtPoints), a \in SeqsUpTo(RtStrings, MaxRtAvoid) }
    \cup
    { Section(l, <<>>, p, a) :
        l \in {"intro", "shortcode", "shortcode_main", "shortcode_1"},
        p \in SeqsUpTo(RtStrings, MaxRtPoints), a \in SeqsUpTo(RtStrings, MaxRtAvoid) }

RtInit ==
    /\ PlanIdle /\ InjIdle /\ DraftIdle /\ CompIdle /\ LinkIdle /\ CallIdle /\ SecIdle /\ StIdle /\ ReqIdle /\ ApIdle /\ TryIdle /\ IxIdle
    /\ rt_pc = "start"
    /\ rt_outline \in SeqsUpTo(RtSections, MaxRtSections)
    /\ rt_text = <<>>
    /\ rt_back = <<>>

OutlineToText ==
    /\ rt_pc = "start"
    /\ rt_text' = outline_to_text(rt_outline)
    /\ rt_pc' = "encoded"
    /\ UNCHANGED <<rt_outline, rt_back, rtRest>>

TextToOutline ==
    /\ rt_pc = "encoded"
    /\ rt_back' = text_to_outline(rt_text)
    /\ rt_pc' = "decoded"
    /\ UNCHANGED <<rt_outline, rt_text, rtRest>>

RtNext == OutlineToText \/ TextToOutline

SpecRoundTrip == RtInit /\ [][RtNext]_vars

\* equality of two outlines up to surrounding whitespace of each string
StripAll(items) == [i \in 1..Len(items) |-> Strip(items[i])]

SameOutline(o1, o2) ==
    /\ Len(o1) = Len(o2)
    /\ \A i \in 1..Len(o1) :
         /\ o1[i].level = o2[i].level
         /\ Strip(o1[i].title) = Strip(o2[i].title)
         /\ StripAll(o1[i].talking_points) = StripAll(o2[i].talking_points)
         /\ StripAll(o1[i].avoid) = StripAll(o2[i].avoid)

\* C3: converting an outline to editable text and parsing the text back gives
\* the same sections (level, title, talking points, avoid list), up to whitespace
C3_RoundTrip == rt_pc = "decoded" => SameOutline(rt_back, rt_outline)


(***************************************************************************)
(* Link injector (inject_switchboard_links)                                *)
(*                                                                         *)
(* A document is a sequence of tokens:                                     *)
(*   "SC"  <strong>B promo code C</strong>   (strong mention with code)    *)
(*   "SN"  <strong>B promo code</strong>     (strong mention, no code)     *)
(*   "PC"  B promo code C                    (plain mention with code)     *)
(*   "PN"  B promo code                      (plain mention, no code)      *)
(*   "AO"  <a href="x">     "AC"  </a>                                     *)
(*   "TO"  <a data-id="switchboard_tracking" href="u" rel="nofollow">      *)
(*   "SO"  <strong>         "SX"  </strong>                                *)
(*   "HO"  <h2>             "HC"  </h2>                                    *)
(*   "T"   two characters of other text                                    *)
(***************************************************************************)
TokLen(t) ==
    CASE t = "SC" -> 31
      [] t = "SN" -> 29
      [] t = "PC" -> 14
      [] t = "PN" -> 12
      [] t = "AO" -> 12
      [] t = "TO" -> 58
      [] t = "AC" -> 4
      [] t = "SO" -> 8
      [] t = "SX" -> 9
      [] t = "HO" -> 4
      [] t = "HC" -> 5
      [] t = "T" -> 2
      [] OTHER -> 1

\* character offset at which token i of doc starts
RECURSIVE OffsetOf(_, _)
OffsetOf(doc, i) == IF i <= 1 THEN 0 ELSE OffsetOf(doc, i - 1) + TokLen(doc[i - 1])

MaxOf(S) == CHOOSE x \in S : \A y \in S : y <= x

\* the strong replacers' test on before = text[:start]:
\* "<a " in before and "</a>" not in before[before.rfind("<a "):]
InsideAnchorOfText(text, start) ==
    LET opens == {j \in 1..Len(text) :
                    text[j] \in {"AO", "TO"} /\ OffsetOf(text, j) + 3 <= start}
    IN /\ opens # {}
       /\ ~\E j \in 1..Len(text) :
              /\ j > MaxOf(opens)
              /\ text[j] = "AC"
              /\ OffsetOf(text, j) + 4 <= start

\* the link the replacers write around a mention
TrackedLink(has_code) == <<"TO", IF has_code THEN "SC" ELSE "SN", "AC">>

\* pattern.sub(make_strong_replacer(..), inp) for the strong pattern that
\* matches tokens of kind `kind`; text is the document the call received.
\* st = [out, n] (n = links_injected)
RECURSIVE StrongSub(_, _, _, _, _, _)
StrongSub(text, inp, kind, args, i, st) ==
    IF i > Len(inp) THEN st
    ELSE IF inp[i] # kind
         THEN StrongSub(text, inp, kind, args, i + 1,
                        [st EXCEPT !.out = Append(@, inp[i])])
    ELSE IF \/ InsideAnchorOfText(text, OffsetOf(inp, i))
            \/ st.n >= args.max_links
         THEN StrongSub(text, inp, kind, args, i + 1,
                        [st EXCEPT !.out = Append(@, inp[i])])
    ELSE StrongSub(text, inp, kind, args, i + 1,
                   [out |-> st.out \o (IF kind = "SC" THEN <<"TO", "SC", "AC">>
                                       ELSE TrackedLink(args.has_code)),
                    n |-> st.n + 1])

LastIn(inp, i, kinds) ==
    LET S == {j \in 1..(i - 1) : inp[j] \in kinds}
    IN IF S = {} THEN 0 ELSE MaxOf(S)

\* the plain replacers' tests on before_text = result[:match_start]
InsideStrong(inp, i) ==
    LastIn(inp, i, {"SO", "SC", "SN"}) > LastIn(inp, i, {"SX", "SC", "SN"})

InsideAnchor(inp, i) ==
    LastIn(inp, i, {"AO", "TO"}) > LastIn(inp, i, {"AC"})


\* what plain_with_code_replacer / plain_replacer write for a matched token: the
\* link, and the rest of the token the pattern did not consume
PlainReplacement(tok, args) ==
    IF tok = "PC" /\ ~args.has_code
    THEN TrackedLink(FALSE) \o <<"T">>
    ELSE TrackedLink(args.has_code)

\* pattern.sub(plain replacer, inp) for the plain pattern matching the tokens
\* in kinds; st = [out, n]
RECURSIVE PlainSub(_, _, _, _, _)
PlainSub(inp, kinds, args, i, st) ==
    IF i > Len(inp) THEN st
    ELSE IF \/ inp[i] \notin kinds
            \/ InsideStrong(inp, i)
            \/ InsideAnchor(inp, i)
            \/ st.n >= args.max_links
         THEN PlainSub(inp, kinds, args, i + 1, [st EXCEPT !.out = Append(@, inp[i])])
    ELSE PlainSub(inp, kinds, args, i + 1,
                  [out |-> st.out \o PlainReplacement(inp[i], args), n |-> st.n + 1])

\* the two substitutions over the strong patterns (with the code, then
\* without it); the result is [out, n]
StrongPasses(text, args) ==
    LET s0 == [out |-> text, n |-> 0]
        s1 == IF args.has_code
              THEN StrongSub(text, s0.out, "SC", args, 1, [out |-> <<>>, n |-> s0.n])
              ELSE s0
    IN StrongSub(text, s1.out, "SN", args, 1, [out |-> <<>>, n |-> s1.n])

\* the injector with the plain passes as a fallback: run only when the strong
\* passes injected nothing, and then for one mention
inject_switchboard_links_fallback(text, args) ==
    IF ~args.enabled THEN text
    ELSE
      LET s2 == StrongPasses(text, args)
          one == [args EXCEPT !.max_links = 1]
          s3 == IF args.has_code
                THEN PlainSub(s2.out, {"PC"}, one, 1, [out |-> <<>>, n |-> 0])
                ELSE [out |-> s2.out, n |-> 0]
          s4 == PlainSub(s3.out, IF args.has_code THEN {"PN"} ELSE {"PN", "PC"},
                         one, 1, [out |-> <<>>, n |-> s3.n])
      IN IF s2.n > 0 THEN s2.out ELSE s4.out

\* the injector with a counter of its own in each substitution pass
inject_switchboard_links_per_pass(text, args) ==
    IF ~args.enabled THEN text
    ELSE
      LET zero == [out |-> <<>>, n |-> 0]
          s1 == IF args.has_code THEN StrongSub(text, text, "SC", args, 1, zero).out ELSE text
          s2 == StrongSub(text, s1, "SN", args, 1, zero).out
          s3 == IF args.has_code THEN PlainSub(s2, {"PC"}, args, 1, zero).out ELSE s2
      IN PlainSub(s3, IF args.has_code THEN {"PN"} ELSE {"PN", "PC"}, args, 1, zero).out

inject_switchboard_links(text, args) ==
    IF ~args.enabled THEN text
    ELSE
      LET s2 == StrongPasses(text, args)
          s3 == IF args.has_code
                THEN PlainSub(s2.out, {"PC"}, args, 1, [out |-> <<>>, n |-> s2.n])
                ELSE s2
          s4 == PlainSub(s3.out, IF args.has_code THEN {"PN"} ELSE {"PN", "PC"},
                         args, 1, [out |-> <<>>, n |-> s3.n])
      IN s4.out

MaxDocLen == 4
MaxCap == 2

DocTokens == {"SC", "SN", "PC", "PN", "AO", "AC", "SO", "SX", "HO", "HC", "T"}

\* nesting depth of the pairs (open, close) after the first i tokens of doc; -1
\* once a close has come without an open
RECURSIVE Depth(_, _, _, _)
Depth(doc, i, open, close) ==
    IF i = 0 THEN 0
    ELSE LET d == Depth(doc, i - 1, open, close)
         IN IF d < 0 THEN d
            ELSE IF doc[i] \in open THEN d + 1
            ELSE IF doc[i] = close THEN d - 1
            ELSE d

\* an anchor element lies inside another anchor element
NestedAnchors(doc) == \E i \in 1..Len(doc) : Depth(doc, i, {"AO", "TO"}, "AC") >= 2

\* documents an article can be: tags balanced, no anchor inside an anchor, no
\* strong element inside a strong element, no heading inside a heading, an
\* anchor, or a strong element; each string has one tokenisation (a
\* strong element holding just a mention is "SC" or "SN", and two plain mentions
\* are apart)
WellFormed(doc) ==
    /\ \A i \in 1..(Len(doc) - 1) : ~(doc[i] \in {"PC", "PN"} /\ doc[i + 1] \in {"PC", "PN"})
    /\ \A i \in 1..(Len(doc) - 2) :
         ~(doc[i] = "SO" /\ doc[i + 1] \in {"PC", "PN"} /\ doc[i + 2] = "SX")
    /\ \A i \in 1..Len(doc) :
         /\ Depth(doc, i, {"AO", "TO"}, "AC") \in {0, 1}
         /\ Depth(doc, i, {"SO"}, "SX") \in {0, 1}
         /\ doc[i] \in {"SC", "SN"} => Depth(doc, i, {"SO"}, "SX") = 0
         /\ Depth(doc, i, {"HO"}, "HC") \in {0, 1}
         /\ doc[i] \in {"HO", "HC"} =>
              /\ Depth(doc, i, {"AO", "TO"}, "AC") = 0
              /\ Depth(doc, i, {"SO"}, "SX") = 0
    /\ Depth(doc, Len(doc), {"HO"}, "HC") = 0
    /\ Depth(doc, Len(doc), {"AO", "TO"}, "AC") = 0
    /\ Depth(doc, Len(doc), {"SO"}, "SX") = 0

TrackedLinks(doc) == Cardinality({i \in 1..Len(doc) : doc[i] = "TO"})

InjInit ==
    /\ PlanIdle /\ RtIdle /\ DraftIdle /\ CompIdle /\ LinkIdle /\ CallIdle /\ SecIdle /\ StIdle /\ ReqIdle /\ ApIdle /\ TryIdle /\ IxIdle
    /\ inj_pc = "start"
    /\ inj_doc \in {d \in SeqsUpTo(DocTokens, MaxDocLen) : WellFormed(d)}
    /\ inj_args \in [enabled : BOOLEAN, has_code : BOOLEAN, max_links : 1..MaxCap]
    /\ inj_out1 = <<>>
    /\ inj_out2 = <<>>

InjectOnce ==
    /\ inj_pc = "start"
    /\ inj_out1' = inject_switchboard_links(inj_doc, inj_args)
    /\ inj_pc' = "once"
    /\ UNCHANGED <<inj_doc, inj_args, inj_out2, injRest>>

InjectAgain ==
    /\ inj_pc = "once"
    /\ inj_out2' = inject_switchboard_links(inj_out1, inj_args)
    /\ inj_pc' = "twice"
    /\ UNCHANGED <<inj_doc, inj_args, inj_out1, injRest>>

InjNext == InjectOnce \/ InjectAgain

SpecInject == InjInit /\ [][InjNext]_vars

\* C4: a second application of the injector to its own output adds no tracked
\* link, and after either application no anchor lies inside another anchor.
C4_Idempotent ==
    /\ inj_pc \in {"once", "twice"} => ~NestedAnchors(inj_out1)
    /\ inj_pc = "twice" =>
         /\ TrackedLinks(inj_out2) <= TrackedLinks(inj_out1)
         /\ ~NestedAnchors(inj_out2)


\* a mention the passes look for, outside every anchor and every strong element
OpenMention(doc, kinds) ==
    \E i \in 1..Len(doc) :
        /\ doc[i] \in kinds
        /\ ~InsideAnchor(doc, i)
        /\ doc[i] \in {"PC", "PN"} => ~InsideStrong(doc, i)

\* C14: the anchors one call of inject_switchboard_links adds, counted over its
\* four substitution passes together, are at most max_links.
C14_CapPerCall ==
    /\ inj_pc \in {"once", "twice"} =>
         TrackedLinks(inj_out1) - TrackedLinks(inj_doc) <= inj_args.max_links
    /\ inj_pc = "twice" =>
         TrackedLinks(inj_out2) - TrackedLinks(inj_out1) <= inj_args.max_links

\* the cap was reached by the strong and the plain passes together, and a
\* plain mention stayed unlinked because of it
C14_Witness ==
    /\ inj_pc = "once"
    /\ inj_args.enabled
    /\ inj_args.max_links = 2
    /\ TrackedLinks(inj_out1) = 2
    /\ Cardinality({i \in 1..Len(inj_doc) : inj_doc[i] \in {"SC", "SN"}}) = 1
    /\ Cardinality({i \in 1..Len(inj_doc) : inj_doc[i] \in {"PC", "PN"}}) = 2
    /\ OpenMention(inj_out1, {"PC", "PN"})


\* token i of doc is a tracked link's opening tag inside an anchor element
\* (InAnchor) or inside a heading element (InHeading)
LinkInAnchor(doc, i) == doc[i] = "TO" /\ Depth(doc, i - 1, {"AO", "TO"}, "AC") >= 1

LinkInHeading(doc, i) == doc[i] = "TO" /\ Depth(doc, i - 1, {"HO"}, "HC") >= 1

\* C15: one call of inject_switchboard_links wraps no phrase that lies inside
\* an anchor element or inside a heading element: the document it received
\* holds no tracked link, so none of its result's tracked links may stand
\* inside an anchor or inside a heading.
C15_NoWrapInAnchorOrHeading ==
    inj_pc = "once" =>
        \A i \in 1..Len(inj_out1) :
            ~LinkInAnchor(inj_out1, i) /\ ~LinkInHeading(inj_out1, i)


\* the plain mentions of doc the plain replacers do not skip
OpenPlainMentions(doc) ==
    {i \in 1..Len(doc) :
        doc[i] \in {"PC", "PN"} /\ ~InsideStrong(doc, i) /\ ~InsideAnchor(doc, i)}

\* links the strong passes / the plain passes of the call on inj_doc injected
FirstPassLinks == StrongPasses(inj_doc, inj_args).n

PlainPassLinks == TrackedLinks(inj_out1) - TrackedLinks(inj_doc) - FirstPassLinks

\* C16 as stated: plain mentions are wrapped only when the passes over the
\* emphasis-wrapped phrases injected no link, and then only the first one.
C16_PlainOnlyAsFallback ==
    (inj_pc = "once" /\ inj_args.enabled) =>
        PlainPassLinks <= (IF FirstPassLinks = 0 THEN 1 ELSE 0)

\* C16: the plain passes run in every call, whatever the strong passes
\* injected: they wrap the plain mentions standing outside every strong and
\* anchor element until the call's cap is reached.
C16_PlainPassesUpToCap ==
    (inj_pc = "once" /\ inj_args.enabled) =>
        LET open == Cardinality(OpenPlainMentions(StrongPasses(inj_doc, inj_args).out))
            room == inj_args.max_links - FirstPassLinks
        IN PlainPassLinks = (IF open < room THEN open ELSE room)

\* a strong mention and a plain mention linked by the same call
C16_Witness ==
    /\ inj_pc = "once"
    /\ inj_args.enabled
    /\ FirstPassLinks = 1
    /\ PlainPassLinks = 1
    /\ OpenPlainMentions(inj_doc) # {}


(***************************************************************************)
(* Draft executor (generate_draft_from_outline and its streaming variant)  *)
(*                                                                         *)
(* A level is its characters, the word "shortcode" and each digit being    *)
(* one atom: <<"shortcode", "_", "1">> is "shortcode_1"; "sup2" is the     *)
(* superscript two, a digit for str.isdigit() that int() does not parse.   *)
(* A document is a sequence of markup and text atoms.                      *)
(***************************************************************************)
DecimalDigits == {"0", "1", "2", "9"}

DigitVal(c) == CASE c = "0" -> 0 [] c = "1" -> 1 [] c = "2" -> 2 [] c = "9" -> 9

\* str.isdigit()
IsDigitStr(s) == s # <<>> /\ \A i \in 1..Len(s) : s[i] \in DecimalDigits \cup {"sup2"}

\* int(s): the value, or -1 when int raises ValueError
RECURSIVE IntOf(_)
IntOf(s) ==
    IF s = <<>> THEN 0
    ELSE IF s[Len(s)] \notin DecimalDigits \/ IntOf(SubSeq(s, 1, Len(s) - 1)) = -1 THEN -1
    ELSE 10 * IntOf(SubSeq(s, 1, Len(s) - 1)) + DigitVal(s[Len(s)])

\* results of select_offer_for_shortcode that are no index into all_offers
NoOffer == 0 - 1
SelectRaises == 0 - 2

\* select_offer_for_shortcode of generate_draft_from_outline: the 0-based index of
\* the offer returned, NoOffer for None, SelectRaises when the call raises
select_offer_for_shortcode(level, all_offers) ==
    IF all_offers = <<>> THEN NoOffer
    ELSE IF level \in { <<"shortcode">>, <<"shortcode", "_", "main">> } THEN 0
    ELSE IF Len(level) >= 2 /\ level[1] = "shortcode" /\ level[2] = "_"
         THEN LET suffix == SubSeq(level, 3, Len(level))
              IN IF IsDigitStr(suffix)
                 THEN IF IntOf(suffix) = -1 THEN SelectRaises
                      ELSE IF IntOf(suffix) < Len(all_offers) THEN IntOf(suffix)
                      ELSE 0
                 ELSE 0
    ELSE 0

\* select_offer_for_shortcode of generate_draft_from_outline_streaming
select_offer_for_shortcode_streaming(level, all_offers) ==
    IF all_offers = <<>> THEN NoOffer
    ELSE IF level \in { <<"shortcode">>, <<"shortcode", "_", "main">> } THEN 0
    ELSE IF Len(level) >= 2 /\ level[1] = "shortcode" /\ level[2] = "_"
         THEN LET suffix == SubSeq(level, 3, Len(level))
              IN IF IsDigitStr(suffix)
                 THEN IF IntOf(suffix) = -1 THEN SelectRaises
                      ELSE IF IntOf(suffix) < Len(all_offers) THEN IntOf(suffix)
                      ELSE 0
                 ELSE 0
    ELSE 0

Placeholder == <<"<!-- Promo module placeholder -->">>

_render_html_offer_block(offer) ==
    IF offer.shortcode = <<>> THEN Placeholder ELSE offer.shortcode

STATE_DISCLAIMERS(state) ==
    CASE state = "NY" ->
           <<"21+. Gambling problem? Call 877-8-HOPENY or text HOPENY (467369).">>
      [] OTHER ->
           <<"21+. Gambling problem? Call 1-800-GAMBLER. ", "Please bet responsibly.">>

UpperState(state) == IF state = "ny" THEN "NY" ELSE state

get_disclaimer_for_state(state) == STATE_DISCLAIMERS(UpperState(state))

\* case folding of the text atoms (re.IGNORECASE)
FoldCase(a) ==
    CASE a = "21+. GAMBLING PROBLEM? CALL 877-8-HOPENY OR TEXT HOPENY (467369)." ->
           "21+. Gambling problem? Call 877-8-HOPENY or text HOPENY (467369)."
      [] a = "21+. GAMBLING PROBLEM? CALL 1-800-GAMBLER. " ->
           "21+. Gambling problem? Call 1-800-GAMBLER. "
      [] a = "PLEASE BET RESPONSIBLY." -> "Please bet responsibly."
      [] a = "PLEASE PARTICIPATE RESPONSIBLY." -> "Please participate responsibly."
      [] OTHER -> a

FoldStr(s) == [i \in DOMAIN s |-> FoldCase(s[i])]

_adapt_disclaimer_for_prediction_market(disclaimer) ==
    [i \in DOMAIN disclaimer |->
        IF FoldCase(disclaimer[i]) = "Please bet responsibly."
        THEN "Please participate responsibly." ELSE disclaimer[i]]

\* the paragraph <p><em>text</em></p>
EmParagraph(text) == <<"<p><em>">> \o text \o <<"</em></p>">>

MatchesAt(html, i, pat) ==
    /\ i + Len(pat) - 1 <= Len(html)
    /\ pat = <<>> \/ FoldCase(html[i]) = FoldCase(pat[1])
    /\ FoldStr(SubSeq(html, i, i + Len(pat) - 1)) = FoldStr(pat)

RECURSIVE SkipSpaces(_, _)
SkipSpaces(html, i) ==
    IF i <= Len(html) /\ IsSpace(html[i]) THEN SkipSpaces(html, i + 1) ELSE i

\* re.sub(pattern, "", html): one pass, left to right, over non-overlapping matches
\* of the disclaimer paragraph and the whitespace after it
RECURSIVE RemoveMatches(_, _, _)
RemoveMatches(html, pat, i) ==
    IF i > Len(html) THEN <<>>
    ELSE IF MatchesAt(html, i, pat)
         THEN RemoveMatches(html, pat, SkipSpaces(html, i + Len(pat)))
    ELSE <<html[i]>> \o RemoveMatches(html, pat, i + 1)

_ensure_single_disclaimer(html, disclaimer) ==
    IF disclaimer = <<>> THEN html
    ELSE RStrip(RemoveMatches(html, EmParagraph(disclaimer), 1))
         \o <<"\n">> \o EmParagraph(disclaimer)


\* re.sub(r"\s+", " ", ...): every run of whitespace becomes one space
RECURSIVE CollapseSpaces(_)
CollapseSpaces(s) ==
    IF s = <<>> THEN <<>>
    ELSE IF IsSpace(s[1])
         THEN <<" ">> \o CollapseSpaces(LStrip(s))
    ELSE <<s[1]>> \o CollapseSpaces(Tail(s))

\* a normalization that trims the title and does nothing else
_normalize_heading_trim_only(text) == Strip(text)

_normalize_heading(text) == CollapseSpaces(LowerStr(Strip(text)))

\* re.sub(r"\bword\b", repl, text, flags=re.IGNORECASE) for whole words
SubWord(text, words, repl) ==
    [i \in DOMAIN text |-> IF Lower(text[i]) \in words THEN repl ELSE text[i]]

\* the four replacements on the pieces of text that hold a match inside
SafeChunk(a) ==
    CASE a = "Bonus bets expire in 7 days." -> "promo credits expire in 7 days."
      [] a = "Bonus bets expire in " -> "promo credits expire in "
      [] a = "Place a qualifying bet and review " -> "Place a qualifying trade and review "
      [] a = "how bonus bets work" -> "how promo credits work"
      [] a = "the sportsbook" -> "the operators"
      [] a = "Please bet responsibly." -> "Please trade responsibly."
      [] a = "<p>More betting resources: " -> "<p>More market resources: "
      [] OTHER -> a

\* re.sub(r"\bbonus bets?\b", "promo credits", text, flags=re.IGNORECASE)
RECURSIVE SubBonusBets(_)
SubBonusBets(text) ==
    IF text = <<>> THEN <<>>
    ELSE IF /\ Len(text) >= 3
            /\ Lower(text[1]) = "bonus" /\ text[2] = " "
            /\ Lower(text[3]) \in {"bet", "bets"}
         THEN <<"promo", " ", "credits">> \o SubBonusBets(SubSeq(text, 4, Len(text)))
    ELSE <<text[1]>> \o SubBonusBets(Tail(text))

\* the four replacements, one after the other
_prediction_market_safe_text(text) ==
    LET words == SubBonusBets(
                    SubWord(SubWord(SubWord(text, {"betting"}, "market"), {"bet"}, "trade"),
                            {"sportsbook", "sportsbooks"}, "operators"))
    IN [i \in DOMAIN words |-> SafeChunk(words[i])]

\* f'<a href="{url}">{anchor}</a>'
LinkHtml(anchor, url) == <<"<a href=\"">> \o url \o <<"\">">> \o anchor \o <<"</a>">>

\* Python `needle in haystack`
ContainsStr(haystack, needle) ==
    \/ needle = <<>>
    \/ \E i \in 1..(Len(haystack) - Len(needle) + 1) :
          /\ haystack[i] = needle[1]
          /\ SubSeq(haystack, i, i + Len(needle) - 1) = needle

\* the anchor the loop uses for a link: its first recommended anchor, or its
\* title, stripped, and reworded in prediction-market mode
LinkAnchor(link, pm) ==
    LET anchor == Strip(IF link.recommended_anchors # <<>>
                        THEN link.recommended_anchors[1] ELSE link.title)
    IN IF pm THEN _prediction_market_safe_text(anchor) ELSE anchor

\* a presence test that looks for the link itself
LinkPresent(html_lower, anchor, url) ==
    ContainsStr(html_lower, LowerStr(LinkHtml(anchor, url)))

\* anchor_present and url_present
AnchorAndUrlPresent(html_lower, anchor, url) ==
    /\ ContainsStr(html_lower, LowerStr(anchor))
    /\ ContainsStr(html_lower, LowerStr(url))

\* the loop over the required links: the (anchor, url) pairs to append
RECURSIVE Additions(_, _, _, _, _)
Additions(html_lower, required, pm, i, seen) ==
    IF i > Len(required) THEN <<>>
    ELSE LET link == required[i]
             anchor == LinkAnchor(link, pm)
             pair == <<anchor, link.url>>
         IN IF link.url = <<>> \/ anchor = <<>> \/ pair \in seen
            THEN Additions(html_lower, required, pm, i + 1, seen)
            ELSE IF AnchorAndUrlPresent(html_lower, anchor, link.url)
            THEN Additions(html_lower, required, pm, i + 1, seen \cup {pair})
            ELSE <<pair>> \o Additions(html_lower, required, pm, i + 1, seen \cup {pair})

\* _append_required_property_links for the required links of the property
_append_required_property_links(html, required, pm) ==
    IF html = <<>> \/ required = <<>> THEN html
    ELSE LET additions == Additions(LowerStr(html), required, pm, 1, {})
             links_html == Join([i \in 1..Len(additions) |->
                                    LinkHtml(additions[i][1], additions[i][2])],
                                <<", ">>)
         IN IF additions = <<>> THEN html
            ELSE RStrip(html)
                 \o <<"\n", IF pm THEN "<p>More resources: "
                            ELSE "<p>More betting resources: ">>
                 \o links_html \o <<".</p>">>

\* InternalLinkSpec as the executor reads it: title, url, recommended_anchors
RequiredLink(title, url, recommended_anchors) ==
    [title |-> title, url |-> url, recommended_anchors |-> recommended_anchors]

ReviewsUrl == <<"https://x/betting", "/reviews">>
StatesUrl == <<"https://x/betting">>
ReviewsAnchor == <<"best ", "betting", " sites">>
StatesAnchor == <<"legal sports ", "betting", " states">>

\* get_required_links_for_property for the default property: the static
\* records, one per URL
PropertyLinks ==
    << RequiredLink(<<"Best ", "Betting", " Sites">>, ReviewsUrl,
                    <<ReviewsAnchor, <<"best ", "sportsbooks">> >>),
       RequiredLink(<<"Legal Sports ", "Betting", " States">>, StatesUrl,
                    <<StatesAnchor>>) >>

\* _inject_switchboard_links_for_offers: one injector call per offer that has a
\* brand and a tracking URL; the documents here mention brand "B" only, so a call
\* for another brand finds no phrase
RECURSIVE InjectForOffers(_, _, _, _)
InjectForOffers(html, offers, i, max_links) ==
    IF i > Len(offers) THEN html
    ELSE InjectForOffers(
            IF offers[i].brand = "B" /\ offers[i].has_url
            THEN inject_switchboard_links(
                    html, [enabled |-> TRUE, has_code |-> offers[i].has_code,
                           max_links |-> max_links])
            ELSE html,
            offers, i + 1, max_links)

_inject_switchboard_links_for_offers(html, offers, max_links) ==
    IF html = <<>> \/ offers = <<>> THEN html
    ELSE InjectForOffers(html, offers, 1, max_links)

\* "\n".join(parts)
JoinParts(parts) == Join(parts, <<"\n">>)

\* the disclaimer the executor appends for a request
ExecDisclaimer(req) ==
    IF req.pm
    THEN _adapt_disclaimer_for_prediction_market(get_disclaimer_for_state(req.state))
    ELSE get_disclaimer_for_state(req.state)

\* the steps after the section loop, the same in both executors (html format)
PostAssemble(parts, req) ==
    LET linked == _append_required_property_links(
                      JoinParts(parts), IF req.needs_links THEN PropertyLinks ELSE <<>>,
                      req.pm)
    IN _inject_switchboard_links_for_offers(
           _ensure_single_disclaimer(linked, ExecDisclaimer(req)), req.all_offers, 2)

MaxDraftSections == 2
MaxOffers == 2
MaxChunks == 2
MaxItems == 3

OfferPool(i) ==
    CASE i = 1 -> [shortcode |-> <<"[bam-offer 0]">>, brand |-> "B", has_code |-> TRUE,
                   has_url |-> TRUE]
      [] i = 2 -> [shortcode |-> <<"[bam-offer 1]">>, brand |-> "C", has_code |-> TRUE,
                   has_url |-> TRUE]
      [] OTHER -> [shortcode |-> <<>>, brand |-> "D", has_code |-> FALSE,
                   has_url |-> TRUE]

\* all_offers = [offer] + alt_offers, or no offer at all
OfferLists == { [i \in 1..n |-> OfferPool(i)] : n \in 0..MaxOffers }

ShortcodeLevels ==
    { <<"shortcode">>, <<"shortcode", "_", "main">>, <<"shortcode", "_", "1">>,
      <<"shortcode", "_", "2">>, <<"shortcode", "_", "x">>, <<"shortcode", "_", "sup2">>,
      <<"shortcode", "s">> }

DraftSections ==
    { [level |-> <<"intro">>, title |-> <<>>],
      [level |-> <<"h2">>, title |-> <<"A">>],
      [level |-> <<"h3">>, title |-> <<" ", "a">>] }
    \cup { [level |-> l, title |-> <<>>] : l \in ShortcodeLevels }

DraftStates == {"ny", "TX"}

UpperText(s) ==
    [i \in DOMAIN s |->
        CASE s[i] = "21+. Gambling problem? Call 877-8-HOPENY or text HOPENY (467369)." ->
               "21+. GAMBLING PROBLEM? CALL 877-8-HOPENY OR TEXT HOPENY (467369)."
          [] s[i] = "21+. Gambling problem? Call 1-800-GAMBLER. " ->
               "21+. GAMBLING PROBLEM? CALL 1-800-GAMBLER. "
          [] s[i] = "Please bet responsibly." -> "PLEASE BET RESPONSIBLY."
          [] s[i] = "Please participate responsibly." -> "PLEASE PARTICIPATE RESPONSIBLY."
          [] OTHER -> s[i]]

\* texts the provider can return for a generic section
GeneratedContents(req) ==
    { <<"<p>text</p>">>,
      <<"<p>text</p>", "\n">> \o EmParagraph(get_disclaimer_for_state(req.state)),
      EmParagraph(ExecDisclaimer(req)) \o <<"\n", "<p>text</p>">>,
      <<"<p>text</p>", "\n">> \o EmParagraph(UpperText(ExecDisclaimer(req))) \o <<"\n">>,
      <<"<p>text</p>", "\n", "SN">> }

\* texts _generate_intro_section can return: two or more paragraphs, which its
\* post-processing leaves as they are
IntroContents(req) ==
    { <<"<p>text</p>", "\n", "<p>text</p>">>,
      <<"<p>text</p>", "\n", "<p>text</p>", "\n">> \o EmParagraph(ExecDisclaimer(req)) }


DraftInit ==
    /\ PlanIdle /\ RtIdle /\ InjIdle /\ CompIdle /\ LinkIdle /\ CallIdle /\ SecIdle /\ StIdle /\ ReqIdle /\ ApIdle /\ TryIdle /\ IxIdle
    /\ d_pc = "sections"
    /\ d_req \in [mode : {"batch", "stream"},
                  outline : SeqsUpTo(DraftSections, MaxDraftSections),
                  all_offers : OfferLists,
                  state : DraftStates,
                  pm : BOOLEAN,
                  needs_links : BOOLEAN]
    /\ d_i = 1
    /\ d_parts = << <<"<h1>title</h1>">> >>
    /\ d_seen = {}
    /\ d_last = NoShortcode
    /\ d_out = <<>>
    /\ d_events = IF d_req.mode = "stream" THEN <<"status", "content">> ELSE <<>>
    /\ d_acc = NoContent
    /\ d_calls = <<>>
    /\ d_ctx = <<>>
    /\ d_twin = << <<"<h1>title</h1>">> >>

\* the events a step of the streaming executor yields; the other executor
\* yields none
Yield(events) == IF d_req.mode = "stream" THEN d_events \o events ELSE d_events

\* _count_keyword: the paragraphs of text that hold the keyword
_count_keyword(text) == Cardinality({i \in 1..Len(text) : text[i] = "<p>text</p>"})

\* an accumulator update in which an intro leaves no trace
AfterIntroIgnored(acc, content) == acc

\* previous_content += content; keyword_count += _count_keyword(content, keyword)
AfterIntro(acc, content) ==
    [previous_content |-> acc.previous_content \o content,
     keyword_count |-> acc.keyword_count + _count_keyword(content)]

\* previous_content += f"\n{section_title}:\n{content}"; keyword_count += ...
AfterBody(acc, section_title, content) ==
    [previous_content |-> acc.previous_content \o <<"\n">> \o section_title
                              \o <<":", "\n">> \o content,
     keyword_count |-> acc.keyword_count + _count_keyword(content)]

CurrentSection == d_req.outline[d_i]

InSections == d_pc = "sections" /\ d_i <= Len(d_req.outline)

\* loop body for level == "intro"; the provider call of _generate_intro_section
\* either returns a text or raises after its retries
ExecIntro ==
    /\ InSections
    /\ CurrentSection.level = <<"intro">>
    /\ d_calls' = Append(d_calls, d_i)
    /\ d_ctx' = Append(d_ctx, NoContent)
    /\ \/ \E content \in IntroContents(d_req) :
            /\ d_parts' = Append(d_parts, content)
            /\ d_twin' = Append(d_twin, content)
            /\ d_acc' = AfterIntro(d_acc, content)
            /\ d_events' = Yield(<<"status", "content">>)
            /\ d_i' = d_i + 1
            /\ d_pc' = d_pc
       \/ /\ d_pc' = "raised"
          /\ d_events' = Yield(<<"status">>)
          /\ UNCHANGED <<d_parts, d_twin, d_i, d_acc>>
    /\ UNCHANGED <<d_req, d_seen, d_last, d_out, draftRest>>

OtherMode(mode) == IF mode = "batch" THEN "stream" ELSE "batch"

\* what the shortcode branch appends when no offer is selected: the placeholder
\* in generate_draft_from_outline, nothing in the streaming executor
NoOfferParts(mode) == IF mode = "batch" THEN <<Placeholder>> ELSE <<>>

\* loop body for level.startswith("shortcode")
ExecShortcode ==
    /\ InSections
    /\ CurrentSection.level[1] = "shortcode"
    /\ LET level == CurrentSection.level
           sel == IF d_req.mode = "batch"
                  THEN select_offer_for_shortcode(level, d_req.all_offers)
                  ELSE select_offer_for_shortcode_streaming(level, d_req.all_offers)
       IN IF sel = SelectRaises
          THEN /\ d_pc' = "raised"
               /\ d_last' = [level |-> level, block |-> <<>>]
               /\ d_events' = Yield(<<"status">>)
               /\ UNCHANGED <<d_parts, d_twin, d_i>>
          ELSE IF sel = NoOffer
          THEN /\ d_parts' = d_parts \o NoOfferParts(d_req.mode)
               /\ d_twin' = d_twin \o NoOfferParts(OtherMode(d_req.mode))
               /\ d_last' = [level |-> level,
                             block |-> IF d_req.mode = "batch" THEN Placeholder ELSE <<>>]
               /\ d_events' = Yield(<<"status">>)
               /\ d_i' = d_i + 1
               /\ d_pc' = d_pc
          ELSE /\ d_parts' = Append(d_parts,
                                    _render_html_offer_block(d_req.all_offers[sel + 1]))
               /\ d_twin' = Append(d_twin,
                                   _render_html_offer_block(d_req.all_offers[sel + 1]))
               /\ d_last' = [level |-> level,
                             block |-> _render_html_offer_block(d_req.all_offers[sel + 1])]
               /\ d_events' = Yield(<<"status", "content">>)
               /\ d_i' = d_i + 1
               /\ d_pc' = d_pc
    /\ UNCHANGED <<d_req, d_seen, d_out, d_acc, d_calls, d_ctx, draftRest>>

\* loop body for level in ("h2", "h3"): a heading seen before is skipped; the
\* generic section's provider call returns a text or raises after its retries
ExecHeading ==
    /\ InSections
    /\ CurrentSection.level \in { <<"h2">>, <<"h3">> }
    /\ LET normalized == _normalize_heading(CurrentSection.title)
           heading == IF CurrentSection.level = <<"h2">>
                      THEN <<"<h2>">> \o CurrentSection.title \o <<"</h2>">>
                      ELSE <<"<h3>">> \o CurrentSection.title \o <<"</h3>">>
       IN IF normalized # <<>> /\ normalized \in d_seen
          THEN /\ d_i' = d_i + 1
               /\ d_events' = Yield(<<"status">>)
               /\ UNCHANGED <<d_pc, d_parts, d_twin, d_seen, d_acc, d_calls, d_ctx>>
          ELSE /\ d_seen' = IF normalized # <<>> THEN d_seen \cup {normalized} ELSE d_seen
               /\ d_calls' = Append(d_calls, d_i)
               /\ d_ctx' = Append(d_ctx, d_acc)
               /\ \/ \E content \in GeneratedContents(d_req) :
                       /\ d_parts' = d_parts \o <<heading, Strip(content)>>
                       /\ d_twin' = d_twin \o <<heading, Strip(content)>>
                       /\ d_acc' = AfterBody(d_acc, CurrentSection.title, Strip(content))
                       /\ d_events' = Yield(<<"status", "content">>)
                       /\ d_i' = d_i + 1
                       /\ d_pc' = d_pc
                  \/ /\ d_pc' = "raised"
                     /\ d_events' = Yield(<<"status">>)
                     /\ UNCHANGED <<d_parts, d_twin, d_i, d_acc>>
    /\ UNCHANGED <<d_req, d_last, d_out, draftRest>>

\* after the loop: join, required links, single disclaimer, link injection
FinishDraft ==
    /\ d_pc = "sections"
    /\ d_i > Len(d_req.outline)
    /\ d_out' = PostAssemble(d_parts, d_req)
    /\ d_events' = Yield(<<"content", "done">>)
    /\ d_pc' = "done"
    /\ UNCHANGED <<d_req, d_i, d_parts, d_twin, d_seen, d_last, d_acc, d_calls, d_ctx,
                   draftRest>>

DraftNext == ExecIntro \/ ExecShortcode \/ ExecHeading \/ FinishDraft

SpecDraft == DraftInit /\ [][DraftNext]_vars


\* positions of d_out at which a disclaimer paragraph for the request's state
\* starts: the state's disclaimer, verbatim or as the executor words it
DisclaimerParagraphs(doc, req) ==
    { i \in 1..Len(doc) :
        \E t \in {get_disclaimer_for_state(req.state), ExecDisclaimer(req)} :
            MatchesAt(doc, i, EmParagraph(t)) }

EndsWithDisclaimer(doc, req) ==
    \E t \in {get_disclaimer_for_state(req.state), ExecDisclaimer(req)} :
        /\ Len(doc) >= Len(EmParagraph(t))
        /\ MatchesAt(doc, Len(doc) - Len(EmParagraph(t)) + 1, EmParagraph(t))

\* C5: the returned document holds exactly one disclaimer paragraph for the
\* request's state, and that paragraph is the last element of the document.
C5_SingleDisclaimerAtEnd ==
    d_pc = "done" =>
        /\ Cardinality(DisclaimerParagraphs(d_out, d_req)) = 1
        /\ EndsWithDisclaimer(d_out, d_req)

\* the block the claim assigns to a shortcode level: the offer at index N for
\* shortcode_N with N in range, the primary offer otherwise
ClaimedBlock(level, all_offers) ==
    LET suffix == SubSeq(level, 3, Len(level))
    IN IF /\ Len(level) >= 3 /\ level[2] = "_"
          /\ \A i \in 1..Len(suffix) : suffix[i] \in DecimalDigits
          /\ IntOf(suffix) < Len(all_offers)
       THEN _render_html_offer_block(all_offers[IntOf(suffix) + 1])
       ELSE _render_html_offer_block(all_offers[1])

\* C6: with a primary offer, every shortcode section renders the block the
\* claim assigns to its level, and the two executors resolve the level alike.
C6_ShortcodeResolution ==
    (d_last # NoShortcode /\ d_req.all_offers # <<>>) =>
        /\ d_pc # "raised"
        /\ d_last.block = ClaimedBlock(d_last.level, d_req.all_offers)
        /\ select_offer_for_shortcode(d_last.level, d_req.all_offers)
             = select_offer_for_shortcode_streaming(d_last.level, d_req.all_offers)


\* the executor stopped on an exception at a section whose text the provider
\* writes (an intro, or an h2/h3 section)
StoppedAtGenerativeSection ==
    /\ d_pc = "raised"
    /\ d_i <= Len(d_req.outline)
    /\ CurrentSection.level \in { <<"intro">>, <<"h2">>, <<"h3">> }

\* C12: a section's generation failure never ends the stream: the streaming
\* executor goes on to the remaining sections and to the done event.
C12_StreamOutlivesSectionFailure ==
    d_req.mode = "stream" => ~StoppedAtGenerativeSection

\* C13: a provider failure in a generative section never reaches the caller of
\* generate_draft_from_outline as an exception.
C13_ProviderFailureContained ==
    d_req.mode = "batch" => ~StoppedAtGenerativeSection


\* a title trimmed, lower-cased and with its runs of whitespace collapsed
NormalizedTitle(title) == CollapseSpaces(LowerStr(Strip(title)))

IsHeadingLevel(level) == level \in { <<"h2">>, <<"h3">> }

\* section j of the outline is an h2/h3 section whose normalized title is not
\* empty and is that of an earlier h2/h3 section
IsDuplicateHeading(outline, j) ==
    /\ IsHeadingLevel(outline[j].level)
    /\ NormalizedTitle(outline[j].title) # <<>>
    /\ \E k \in 1..(j - 1) :
          /\ IsHeadingLevel(outline[k].level)
          /\ NormalizedTitle(outline[k].title) = NormalizedTitle(outline[j].title)

\* the h2/h3 sections among the first n that are no duplicates
FirstOccurrences(outline, n) ==
    { j \in 1..n : IsHeadingLevel(outline[j].level) /\ ~IsDuplicateHeading(outline, j) }

HeadingOf(section) ==
    IF section.level = <<"h2">> THEN <<"<h2>">> \o section.title \o <<"</h2>">>
    ELSE <<"<h3>">> \o section.title \o <<"</h3>">>

\* the parts that are headings
HeadingParts(parts) == { i \in 1..Len(parts) : parts[i][1] \in {"<h2>", "<h3>"} }

ContentEvents(events) == { i \in 1..Len(events) : events[i] = "content" }

\* the step over a duplicate heading adds no part, yields no content event,
\* makes no provider call and leaves the accumulators and the seen set alone
SkipsDuplicate ==
    (InSections /\ IsDuplicateHeading(d_req.outline, d_i)) =>
        /\ d_parts' = d_parts
        /\ ContentEvents(d_events') = ContentEvents(d_events)
        /\ d_calls' = d_calls
        /\ d_acc' = d_acc
        /\ d_seen' = d_seen
        /\ d_i' = d_i + 1

\* of the h2/h3 sections walked so far, the first occurrences and only they
\* were generated, and their headings are the headings of the document
FirstOccurrenceRendered ==
    LET walked == FirstOccurrences(d_req.outline, d_i - 1)
    IN /\ \A j \in 1..(d_i - 1) :
             IsHeadingLevel(d_req.outline[j].level) =>
                 ((\E c \in 1..Len(d_calls) : d_calls[c] = j) <=> j \in walked)
       /\ Cardinality(HeadingParts(d_parts)) = Cardinality(walked)
       /\ \A j \in walked :
             \E i \in HeadingParts(d_parts) : d_parts[i] = HeadingOf(d_req.outline[j])

\* C20: an h2/h3 section whose normalized, non-empty title equals that of an
\* earlier h2/h3 section is skipped: no heading, no content, no provider call,
\* previous content, keyword count and seen set unchanged; the first
\* occurrence is the one rendered.
C20_DuplicateHeadingSkipped ==
    []FirstOccurrenceRendered /\ [][SkipsDuplicate]_vars

\* the parts that are the text of an intro section: neither the title, nor a
\* heading or the text under it, nor a promo block
IntroParts(parts) ==
    { i \in 2..Len(parts) :
        /\ i \notin HeadingParts(parts)
        /\ (i - 1) \notin HeadingParts(parts)
        /\ parts[i] # Placeholder
        /\ \A k \in 1..(MaxOffers + 1) : parts[i] # OfferPool(k).shortcode }

\* the texts of the sections rendered so far, in the order of the document:
\* an intro's text as it is, a heading's text after a line with its title
RECURSIVE RenderedContext(_, _)
RenderedContext(parts, i) ==
    IF i > Len(parts) THEN <<>>
    ELSE IF i \in HeadingParts(parts)
         THEN <<"\n">> \o SubSeq(parts[i], 2, Len(parts[i]) - 1) \o <<":", "\n">>
                  \o parts[i + 1] \o RenderedContext(parts, i + 2)
    ELSE IF i \in IntroParts(parts) THEN parts[i] \o RenderedContext(parts, i + 1)
    ELSE RenderedContext(parts, i + 1)

\* the keyword's occurrences in those texts
RECURSIVE RenderedKeywords(_, _)
RenderedKeywords(parts, i) ==
    IF i > Len(parts) THEN 0
    ELSE IF i \in HeadingParts(parts)
         THEN _count_keyword(parts[i + 1]) + RenderedKeywords(parts, i + 2)
    ELSE IF i \in IntroParts(parts)
         THEN _count_keyword(parts[i]) + RenderedKeywords(parts, i + 1)
    ELSE RenderedKeywords(parts, i + 1)

RenderedSoFar ==
    [previous_content |-> RenderedContext(d_parts, 1),
     keyword_count |-> RenderedKeywords(d_parts, 1)]

\* a provider call is made for the section the walk stands at, after every
\* earlier call's text has been appended
IssuedInOrder ==
    d_calls' # d_calls =>
        /\ InSections
        /\ d_calls' = Append(d_calls, d_i)
        /\ \A c \in 1..Len(d_calls) : d_calls[c] < d_i
        /\ Cardinality(HeadingParts(d_parts)) + Cardinality(IntroParts(d_parts))
               = Len(d_calls)
        /\ Len(d_ctx') = Len(d_calls')

\* every call, an intro's included, is given the rendered texts and their count
EveryCallGivenContext ==
    d_calls' # d_calls => d_ctx'[Len(d_ctx')] = RenderedSoFar

\* the call for an h2/h3 section is given the rendered texts and their count;
\* the call for an intro is given neither
BodyCallGivenContext ==
    d_calls' # d_calls =>
        d_ctx'[Len(d_ctx')] = IF IsHeadingLevel(CurrentSection.level) THEN RenderedSoFar
                              ELSE NoContent

C29_SameDraft ==
    d_pc = "done" => d_out = PostAssemble(d_twin, d_req)

\* the streaming executor has walked <h2>A</h2> and then the h3 " a": one
\* heading, one content, one provider call
C20_Witness ==
    /\ d_req.mode = "stream"
    /\ d_req.outline = << [level |-> <<"h2">>, title |-> <<"A">>],
                          [level |-> <<"h3">>, title |-> <<" ", "a">>] >>
    /\ d_pc = "sections"
    /\ d_i = 3
    /\ Len(d_parts) = 3
    /\ d_parts[2] = <<"<h2>", "A", "</h2>">>
    /\ d_calls = <<1>>
    /\ d_seen = { <<"a">> }


(***************************************************************************)
(* One section of the executor's loop: the shortcode branch and            *)
(* _generate_body_section (app/services/draft.py)                          *)
(*                                                                         *)
(* A title is its words.  A text (terms, content) is a sequence of atoms:  *)
(* pieces of text, " ", "\n", and "\\n" for a backslash followed by n.     *)
(* An absent number of days is <<>>, a number n is <<n>>.                  *)
(***************************************************************************)
\* a run of whole words of s
ContainsWords(s, p) ==
    \E i \in 1..(Len(s) - Len(p) + 1) : SubSeq(s, i, i + Len(p) - 1) = p

SignupPhrases ==
    { <<"sign", "up">>, <<"sign-up">>, <<"signup">>, <<"register">>, <<"registration">>,
      <<"create", "an", "account">>, <<"create", "a", "account">>,
      <<"open", "an", "account">>, <<"open", "a", "account">>, <<"get", "started">>,
      <<"how", "to", "sign">>, <<"how", "to", "register">>, <<"how", "to", "join">> }

_is_signup_heading(title_lower) ==
    title_lower # <<>> /\ \E p \in SignupPhrases : ContainsWords(title_lower, p)

\* x in w for a word w of the vocabulary
WordContains(w, x) == w = x \/ (x = "terms" /\ w = "midterms")

\* "daily promo" in title_lower or "promos today" in title_lower
is_daily_promos(title_lower) ==
    \/ ContainsPhrase(title_lower, <<"daily", "promo">>)
    \/ ContainsPhrase(title_lower, <<"promos", "today">>)

\* variant of is_terms that finds the intent in no title
is_terms_never(title_lower) == FALSE

\* any(x in title_lower for x in ["terms", "conditions", "fine print"])
is_terms(title_lower) ==
    \/ \E i \in 1..Len(title_lower) :
          WordContains(title_lower[i], "terms") \/ WordContains(title_lower[i], "conditions")
    \/ ContainsPhrase(title_lower, <<"fine", "print">>)

TermsSentence == "Bonus bets expire in 7 days."

\* extract_bonus_expiration_days: of the texts' atoms only TermsSentence holds
\* a match of one of its patterns
extract_bonus_expiration_days(terms) ==
    IF \E i \in 1..Len(terms) : terms[i] = TermsSentence THEN <<7>> ELSE <<>>

\* extract_minimum_odds, extract_wagering_requirement: no atom of the texts
\* holds a match of their patterns
extract_minimum_odds(terms) == <<>>

extract_wagering_requirement(terms) == <<>>

\* Python's `a or b` for an optional number and for a string
DaysOr(a, b) == IF a # <<>> /\ a # <<0>> THEN a ELSE b

StrOr(a, b) == IF a # <<>> THEN a ELSE b

\* variant of CleanTerms that leaves the text as it is
CleanTermsRaw(terms) == terms

\* terms.replace("\\n", "\n")
CleanTerms(terms) == [i \in DOMAIN terms |-> IF terms[i] = "\\n" THEN "\n" ELSE terms[i]]

\* [p.strip() for p in cleaned.splitlines() if p.strip()]
RECURSIVE NonBlankStripped(_)
NonBlankStripped(lines) ==
    IF lines = <<>> THEN <<>>
    ELSE IF Strip(lines[1]) = <<>> THEN NonBlankStripped(Tail(lines))
    ELSE <<Strip(lines[1])>> \o NonBlankStripped(Tail(lines))

\* str(n) for the numbers of days of the texts and offers
DaysText(n) == CASE n = 0 -> "0" [] n = 5 -> "5" [] n = 7 -> "7"

Paragraph(text) == <<"<p>">> \o text \o <<"</p>">>

ParagraphsOf(paras) == Join([i \in 1..Len(paras) |-> Paragraph(paras[i])], <<"\n">>)

SeeFullTerms(pm) ==
    IF pm
    THEN "See full terms at the operator site for complete eligibility, market rules, and settlement details."
    ELSE "See full terms at the operator site for complete eligibility and restrictions."

_render_terms_section_html(terms, expiration_days, min_odds, wagering, pm) ==
    LET paras == NonBlankStripped(SplitOn(CleanTerms(terms), "\n", 1, <<>>))
        expiry == IF expiration_days = <<>> THEN <<>>
                  ELSE << <<IF pm THEN "Promotional credits expire in "
                                  ELSE "Bonus bets expire in ",
                            DaysText(expiration_days[1]), " days.">> >>
        odds == IF pm \/ min_odds = <<>> THEN <<>>
                ELSE << <<"Minimum odds requirement: ">> \o min_odds \o <<".">> >>
        wager == IF pm \/ wagering = <<>> THEN <<>>
                 ELSE << <<"Wagering requirement: ">> \o wagering \o <<".">> >>
        points == expiry \o odds \o wager \o << <<SeeFullTerms(pm)>> >>
    IN IF terms # <<>> /\ paras # <<>>
       THEN ParagraphsOf(paras)
       ELSE Paragraph(Join(points, <<" ">>))

\* _render_daily_promos_placeholder for the section's one offer
_render_daily_promos_placeholder(offer, pm) ==
    <<"<p><strong>Daily Promos Update:</strong> Refresh this section.</p>", "\n", "<ul>", "\n",
      "<li>", "<strong>">>
        \o (IF offer.brand # <<>> THEN offer.brand
            ELSE IF pm THEN <<"Operator">> ELSE <<"Sportsbook">>)
        \o <<":</strong> ", "Promo details", ".">>
        \o (IF offer.bonus_code # <<>> THEN <<" Code: ">> \o offer.bonus_code \o <<".">>
            ELSE <<>>)
        \o <<" States Available: ", "NY", ".", "</li>", "\n", "</ul>">>

\* "<ol>\n" + "\n".join(f"<li>{step}</li>" for step in steps) + "\n</ol>"
_steps_to_html(steps) ==
    <<"<ol>", "\n">>
        \o Join([i \in 1..Len(steps) |-> <<"<li>">> \o steps[i] \o <<"</li>">>], <<"\n">>)
        \o <<"\n", "</ol>">>

code_strong(offer) ==
    <<"<strong>">> \o offer.brand \o <<" Promo Code ">> \o offer.bonus_code \o <<"</strong>">>

_build_signup_list(brand, has_code, code, pm) ==
    LET brand_label == IF brand # <<>> THEN brand
                       ELSE IF pm THEN <<"the operator">> ELSE <<"the sportsbook">>
    IN _steps_to_html(
         << <<"Confirm you're eligible (21+ in your state) and open ", "<a href=\"#\">">>
                \o brand_label \o <<" sign-up guide", "</a>", ".">>,
            IF has_code THEN <<"Create your account and enter ">> \o code \o <<".">>
            ELSE <<"Create your account (no promo code required).">>,
            <<"Complete verification and log in.">>,
            <<"Fund your account.">>,
            IF pm
            THEN <<"Place a qualifying market position and review ", "<a href=\"#\">",
                   "how market contracts settle", "</a>", " for settlement details.">>
            ELSE <<"Place a qualifying bet and review ", "<a href=\"#\">",
                   "how bonus bets work", "</a>", " for payout details.">> >>)

\* what generate_completion_structured can give _generate_signup_steps_structured:
\* an exception, or the parsed JSON value: no object, an object without "steps",
\* with "steps": null, with a string of five characters for "steps", or with an
\* array.  An entry of the array is a string (its text) or a value of another type.
Str(text) == [is_str |-> TRUE, text |-> text]

NotStr == [is_str |-> FALSE, text |-> <<>>]

StepsOf(n) == [i \in 1..n |-> Str(<<"step">>)]

StructuredResults ==
    { [kind |-> "raise", value |-> <<>>],
      [kind |-> "not_dict", value |-> <<>>],
      [kind |-> "no_steps", value |-> <<>>],
      [kind |-> "steps_null", value |-> <<>>],
      [kind |-> "steps_str", value |-> [i \in 1..5 |-> Str(<<"c">>)]] }
    \cup { [kind |-> "steps", value |-> StepsOf(n)] : n \in 0..6 }
    \cup { [kind |-> "steps", value |-> s] :
             s \in { Append(StepsOf(4), Str(<<" ">>)),
                     Append(StepsOf(4), Str(<<>>)),
                     Append(StepsOf(4), NotStr),
                     Append(StepsOf(4), Str(<<" ", "step", " ">>)),
                     <<Str(<<" ">>)>> \o StepsOf(5),
                     <<NotStr>> \o StepsOf(5),
                     <<Str(<<>>), NotStr>> \o StepsOf(4) } }

\* [s.strip() for s in steps if isinstance(s, str) and s.strip()]
RECURSIVE CleanSteps(_)
CleanSteps(steps) ==
    IF steps = <<>> THEN <<>>
    ELSE IF steps[1].is_str /\ Strip(steps[1].text) # <<>>
         THEN <<Strip(steps[1].text)>> \o CleanSteps(Tail(steps))
    ELSE CleanSteps(Tail(steps))

\* variant of HasFiveSteps that takes any non-empty list
HasSomeSteps(steps) == Len(steps) >= 1

\* len(steps) == 5
HasFiveSteps(steps) == Len(steps) = 5

\* _generate_signup_steps_structured: the steps, or <<>> for None
_generate_signup_steps_structured(result) ==
    IF result.kind \in {"raise", "steps_null"} THEN <<>>
    ELSE LET steps == CleanSteps(IF result.kind \in {"steps", "steps_str"}
                                 THEN result.value ELSE <<>>)
         IN IF HasFiveSteps(steps) THEN steps ELSE <<>>


MaxTermsLen == 3

TermsAtoms == {TermsSentence, "t", " ", "\n", "\\n"}

\* offers whose terms and facts vary (the code fixed)
TermsOffers ==
    [brand : {<<"B">>},
     bonus_code : {<<"X">>},
     shortcode : {<<"[bam-offer 0]">>},
     terms : SeqsUpTo(TermsAtoms, MaxTermsLen),
     bonus_expiration_days : {<<>>, <<5>>},
     minimum_odds : {<<>>, <<"-200">>},
     wagering_requirement : {<<>>, <<"1x">>}]

\* offers whose brand and code vary (no terms, no facts)
CodeOffers ==
    [brand : {<<>>, <<"B">>},
     bonus_code : {<<>>, <<"X">>},
     shortcode : {<<>>, <<"[bam-offer 0]">>},
     terms : { <<>> },
     bonus_expiration_days : { <<>> },
     minimum_odds : { <<>> },
     wagering_requirement : { <<>> }]

TermsIntentTitles == { <<"Terms", "&", "Conditions">>, <<"Sign", "Up", "Terms">> }

DailyIntentTitles == { <<"Daily", "Promos", "Today">> }

SignupIntentTitles == { <<"How", "to", "Sign", "Up">>, <<"Sign", "Up", "Terms">> }

SecTitles ==
    TermsIntentTitles \cup DailyIntentTitles \cup SignupIntentTitles \cup { <<"Overview">> }

HeadingLevels == { <<"h2">>, <<"h3">> }

\* the sections and offers a run starts from: the offer's terms and facts vary
\* for the titles with terms intent, its brand and code for every section
SecInputs ==
    [level : HeadingLevels, title : TermsIntentTitles, offer : TermsOffers, pm : BOOLEAN]
    \cup [level : HeadingLevels, title : SecTitles, offer : CodeOffers, pm : BOOLEAN]
    \cup [level : { <<"shortcode">>, <<"shortcode", "_", "1">> }, title : { <<>> },
          offer : CodeOffers, pm : BOOLEAN]

SecInit ==
    /\ PlanIdle /\ RtIdle /\ InjIdle /\ DraftIdle /\ CompIdle /\ LinkIdle /\ CallIdle /\ StIdle /\ ReqIdle /\ ApIdle /\ TryIdle /\ IxIdle
    /\ s_pc = "start"
    /\ s_in \in SecInputs
    /\ s_calls = <<>>
    /\ s_out = <<>>

Call(fn, result) == [fn |-> fn, result |-> result]

NoValue(kind) == [kind |-> kind, value |-> <<>>]

IsHeadingSection == s_in.level \in HeadingLevels

title_lower == LowerStr(s_in.title)

\* loop body for level.startswith("shortcode"), all_offers being [offer]
SectionShortcode ==
    /\ s_pc = "start"
    /\ s_in.level # <<>> /\ s_in.level[1] = "shortcode"
    /\ LET sel == select_offer_for_shortcode(s_in.level, <<s_in.offer>>)
       IN IF sel = SelectRaises
          THEN s_pc' = "raised" /\ s_out' = s_out
          ELSE /\ s_pc' = "done"
               /\ s_out' = _render_html_offer_block(<<s_in.offer>>[sel + 1])
    /\ UNCHANGED <<s_in, s_calls, secRest>>

\* _generate_body_section up to its title tests: the style and link lookups,
\* each inside try/except; a lookup may ask the embedding provider
SectionLookups ==
    /\ s_pc = "start"
    /\ IsHeadingSection
    /\ \E asked \in SUBSET {"query_articles", "suggest_links_for_section"} :
          s_calls' = (IF "query_articles" \in asked
                      THEN <<Call("get_embedding", NoValue("vector"))>> ELSE <<>>)
                     \o (IF "suggest_links_for_section" \in asked
                         THEN <<Call("get_embedding", NoValue("vector"))>> ELSE <<>>)
    /\ s_pc' = "dispatch"
    /\ UNCHANGED <<s_in, s_out, secRest>>

\* if is_daily_promos: return _render_daily_promos_placeholder(..)
SectionDaily ==
    /\ s_pc = "dispatch"
    /\ is_daily_promos(title_lower)
    /\ s_out' = _render_daily_promos_placeholder(s_in.offer, s_in.pm)
    /\ s_pc' = "done"
    /\ UNCHANGED <<s_in, s_calls, secRest>>

\* if is_terms: return _render_terms_section_html(..)
SectionTerms ==
    /\ s_pc = "dispatch"
    /\ ~is_daily_promos(title_lower)
    /\ is_terms(title_lower)
    /\ LET terms == s_in.offer.terms
       IN s_out' = _render_terms_section_html(
                      terms,
                      DaysOr(s_in.offer.bonus_expiration_days,
                             extract_bonus_expiration_days(terms)),
                      StrOr(s_in.offer.minimum_odds, extract_minimum_odds(terms)),
                      StrOr(s_in.offer.wagering_requirement,
                            extract_wagering_requirement(terms)),
                      s_in.pm)
    /\ s_pc' = "done"
    /\ UNCHANGED <<s_in, s_calls, secRest>>

\* if is_numbered_list: one structured call, then its steps or the fixed list
SectionSignup ==
    /\ s_pc = "dispatch"
    /\ ~is_daily_promos(title_lower)
    /\ ~is_terms(title_lower)
    /\ _is_signup_heading(title_lower)
    /\ \E result \in StructuredResults :
          LET steps == _generate_signup_steps_structured(result)
          IN /\ s_calls' = Append(s_calls, Call("generate_completion_structured", result))
             /\ s_out' = IF steps # <<>> THEN _steps_to_html(steps)
                         ELSE _build_signup_list(s_in.offer.brand,
                                                 s_in.offer.bonus_code # <<>>,
                                                 code_strong(s_in.offer), s_in.pm)
    /\ s_pc' = "done"
    /\ UNCHANGED <<s_in, secRest>>

\* texts the provider can return for a generic section
SectionContents ==
    { <<"<p>text</p>">>, <<"<p>text</p>", "\n">>,
      Paragraph(<<"Place a ", "bet", " at the ", "sportsbook", ".">>) }

\* every other title: the completion call, outside any try/except
SectionGeneric ==
    /\ s_pc = "dispatch"
    /\ ~is_daily_promos(title_lower)
    /\ ~is_terms(title_lower)
    /\ ~_is_signup_heading(title_lower)
    /\ \/ \E content \in SectionContents :
            /\ s_calls' = Append(s_calls, Call("generate_completion",
                                               [kind |-> "text", value |-> content]))
            /\ s_out' = Strip(content)
            /\ s_pc' = "done"
       \/ /\ s_calls' = Append(s_calls, Call("generate_completion", NoValue("raise")))
          /\ s_out' = s_out
          /\ s_pc' = "raised"
    /\ UNCHANGED <<s_in, secRest>>

SecNext ==
    \/ SectionShortcode
    \/ SectionLookups
    \/ SectionDaily
    \/ SectionTerms
    \/ SectionSignup
    \/ SectionGeneric

SpecSection == SecInit /\ [][SecNext]_vars

\* C26: in prediction-market mode the text of a finished heading section is what
\* the vocabulary substitution makes of it, for a generated section and for a
\* templated one.
C26_SubstitutionApplied ==
    (s_pc = "done" /\ s_in.pm /\ IsHeadingSection) =>
        s_out = _prediction_market_safe_text(s_out)


TextGenerationCalls ==
    {i \in 1..Len(s_calls) :
        s_calls[i].fn \in {"generate_completion", "generate_completion_structured"}}

IsShortcodeSection == s_in.level # <<>> /\ s_in.level[1] = "shortcode"

IsTermsSection == IsHeadingSection /\ s_in.title \in TermsIntentTitles

IsDailySection == IsHeadingSection /\ s_in.title \in DailyIntentTitles

\* the content of a section that is rendered from the offer alone
RenderedFromOffer ==
    IF IsShortcodeSection THEN _render_html_offer_block(s_in.offer)
    ELSE IF IsDailySection THEN _render_daily_promos_placeholder(s_in.offer, s_in.pm)
    ELSE _render_terms_section_html(
             s_in.offer.terms,
             DaysOr(s_in.offer.bonus_expiration_days,
                    extract_bonus_expiration_days(s_in.offer.terms)),
             s_in.offer.minimum_odds, s_in.offer.wagering_requirement, s_in.pm)

\* C17: for a shortcode section and for an h2/h3 section with terms or
\* daily-promos intent no call to the text-generation provider is made, and
\* the section's content is a function of the section and the offer alone.
C17_NoGenerationCall ==
    (IsShortcodeSection \/ IsTermsSection \/ IsDailySection) =>
        /\ TextGenerationCalls = {}
        /\ s_pc # "raised"
        /\ s_pc = "done" => s_out = RenderedFromOffer

\* a terms section rendered after both lookups asked the embedding provider
C17_Witness ==
    /\ s_pc = "done"
    /\ IsTermsSection
    /\ Len(s_calls) = 2
    /\ s_out # <<>>

\* the lines of a text, a line break being the atom sep or one of the atoms seps
RECURSIVE LinesOf(_, _, _)
LinesOf(text, seps, cur) ==
    IF text = <<>> THEN <<cur>>
    ELSE IF text[1] \in seps THEN <<cur>> \o LinesOf(Tail(text), seps, <<>>)
    ELSE LinesOf(Tail(text), seps, Append(cur, text[1]))

IsNonBlank(line) == \E i \in 1..Len(line) : ~IsSpace(line[i])

NonBlankLines(text, seps) == SelectSeq(LinesOf(text, seps, <<>>), IsNonBlank)

AtomsOf(text) == {text[i] : i \in 1..Len(text)}

\* the days the terms section is given
SectionDays ==
    DaysOr(s_in.offer.bonus_expiration_days, extract_bonus_expiration_days(s_in.offer.terms))

\* the section built from the facts: one paragraph that ends with the fixed
\* line, states the expiry exactly when the days are known, and states the
\* minimum odds and the wagering requirement exactly when they are known and
\* the article is not in prediction-market mode
BuiltFromFacts(out) ==
    /\ Len(out) >= 3
    /\ out[1] = "<p>" /\ out[Len(out)] = "</p>" /\ out[Len(out) - 1] = SeeFullTerms(s_in.pm)
    /\ \A i \in 2..(Len(out) - 1) : out[i] \notin {"<p>", "</p>"}
    /\ (\E i \in 1..(Len(out) - 1) :
            /\ out[i] = (IF s_in.pm THEN "Promotional credits expire in "
                                    ELSE "Bonus bets expire in ")
            /\ SectionDays # <<>>
            /\ out[i + 1] = DaysText(SectionDays[1]))
         <=> SectionDays # <<>>
    /\ ~\E i \in 1..Len(out) :
            out[i] = (IF s_in.pm THEN "Bonus bets expire in "
                                 ELSE "Promotional credits expire in ")
    /\ "Minimum odds requirement: " \in AtomsOf(out)
         <=> (~s_in.pm /\ s_in.offer.minimum_odds # <<>>)
    /\ "Wagering requirement: " \in AtomsOf(out)
         <=> (~s_in.pm /\ s_in.offer.wagering_requirement # <<>>)
    /\ AtomsOf(out) \subseteq
         {"<p>", "</p>", " ", ".", " days.", SeeFullTerms(s_in.pm), "Bonus bets expire in ",
          "Promotional credits expire in ", "Minimum odds requirement: ",
          "Wagering requirement: "}
         \cup {DaysText(n) : n \in AtomsOf(SectionDays)}
         \cup AtomsOf(s_in.offer.minimum_odds)
         \cup AtomsOf(s_in.offer.wagering_requirement)

IsSignupSection == IsHeadingSection /\ s_in.title \in SignupIntentTitles

ListItems(out) == Cardinality({i \in 1..Len(out) : out[i] = "<li>"})

IsOrderedList(out) == Len(out) >= 2 /\ out[1] = "<ol>" /\ out[Len(out)] = "</ol>"

StructuredCalls ==
    {i \in 1..Len(s_calls) : s_calls[i].fn = "generate_completion_structured"}

\* C19 as stated: every section with sign-up intent is an ordered list of five
\* steps, made with one structured call.
C19_SignupAlwaysFiveSteps ==
    (s_pc = "done" /\ IsSignupSection) =>
        /\ IsOrderedList(s_out)
        /\ ListItems(s_out) = 5
        /\ Cardinality(StructuredCalls) = 1

\* C19: a section with sign-up intent and neither daily-promos nor terms
\* intent never fails and is an ordered list of exactly five steps, made with
\* one structured call and no other generation call: the provider's entries,
\* trimmed, when the non-blank strings among them number five, and the fixed
\* list for the brand, code and mode otherwise.
C19_SignupFiveSteps ==
    (IsSignupSection /\ ~IsTermsSection /\ ~IsDailySection) =>
        /\ s_pc # "raised"
        /\ s_pc = "done" =>
             /\ Cardinality(TextGenerationCalls) = 1
             /\ StructuredCalls = {Len(s_calls)}
             /\ IsOrderedList(s_out)
             /\ ListItems(s_out) = 5
             /\ LET result == s_calls[Len(s_calls)].result
                    kept == IF result.kind \in {"steps", "steps_str"}
                            THEN CleanSteps(result.value) ELSE <<>>
                IN s_out = IF Len(kept) = 5 THEN _steps_to_html(kept)
                           ELSE _build_signup_list(s_in.offer.brand,
                                                   s_in.offer.bonus_code # <<>>,
                                                   code_strong(s_in.offer), s_in.pm)

\* the provider gave six entries, one of them blank, and its five steps are
\* the list
C19_Witness ==
    /\ s_pc = "done"
    /\ IsSignupSection /\ ~IsTermsSection
    /\ s_calls # <<>>
    /\ s_calls[Len(s_calls)].result.kind = "steps"
    /\ Len(s_calls[Len(s_calls)].result.value) = 6
    /\ s_out = _steps_to_html([i \in 1..5 |-> <<"step">>])


(***************************************************************************)
(* Compliance validation (validate_content)                                *)
(*                                                                         *)
(* A content is a sequence of chunks of text, joined by single spaces.     *)
(***************************************************************************)
Chunks ==
    { "guaranteed win",
      "unguaranteed win",
      "place a bet",
      "21+ only",
      "surefire risk-free can't lose free money easy win no-brainer guarantee",
      "[Claim Offer](/go)",
      "[here](https://other.com/x)",
      "use code CODE",
      "(a paragraph of 120 words)" }

\* number of matches of BANNED_PATTERNS in a chunk
BannedMatches(chunk) ==
    CASE chunk = "guaranteed win" -> 1
      [] chunk = "surefire risk-free can't lose free money easy win no-brainer guarantee" -> 7
      [] OTHER -> 0

\* a BET_TRIGGERS pattern matches in the chunk
HasBetTrigger(chunk) == chunk = "place a bet"

\* one of "responsible", "21+", "gambler", "gambling problem", "bet responsibly"
\* is in the chunk
HasResponsiblePhrase(chunk) == chunk = "21+ only"

\* len(chunk.split())
WordsOf(chunk) ==
    CASE chunk = "place a bet" -> 3
      [] chunk = "surefire risk-free can't lose free money easy win no-brainer guarantee" -> 10
      [] chunk = "[here](https://other.com/x)" -> 1
      [] chunk = "use code CODE" -> 3
      [] chunk = "(a paragraph of 120 words)" -> 120
      [] OTHER -> 2

RECURSIVE SumOver(_, _)
SumOver(f, S) ==
    IF S = {} THEN 0
    ELSE LET x == CHOOSE y \in S : TRUE IN f[x] + SumOver(f, S \ {x})

\* how many chunks of content satisfy a test given as a set of chunks
CountIn(content, set) == Cardinality({i \in 1..Len(content) : content[i] \in set})

WordCount(content) == SumOver([i \in 1..Len(content) |-> WordsOf(content[i])], 1..Len(content))

Issue(type, severity) == [type |-> type, severity |-> severity]

Repeat(x, n) == [i \in 1..n |-> x]

check_banned_phrases(content) ==
    Repeat(Issue("banned_phrase", "error"),
           SumOver([i \in 1..Len(content) |-> BannedMatches(content[i])], 1..Len(content)))

\* variant of check_responsible_gaming that reports nothing
check_responsible_gaming_silent(content) == <<>>

check_responsible_gaming(content) ==
    IF /\ \E i \in 1..Len(content) : HasBetTrigger(content[i])
       /\ ~\E i \in 1..Len(content) : HasResponsiblePhrase(content[i])
    THEN << Issue("responsible_gaming", "error") >>
    ELSE <<>>

check_cta_links(content) ==
    IF CountIn(content, {"[Claim Offer](/go)"}) < 1
    THEN << Issue("missing_cta", "warning") >>
    ELSE <<>>

check_seo(content) ==
    (IF WordCount(content) > 130
     THEN << Issue("long_paragraph", "warning") >> ELSE <<>>)
    \o
    (IF /\ WordCount(content) > 0
        /\ CountIn(content, {"[here](https://other.com/x)"}) * 120 > WordCount(content)
     THEN << Issue("link_density", "warning") >> ELSE <<>>)

check_offer_facts(content, offer, keyword) ==
    IF content = <<>> THEN <<>>
    ELSE
      (IF offer /\ CountIn(content, {"use code CODE"}) = 0
       THEN << Issue("missing_bonus_code", "error") >> ELSE <<>>)
      \o
      (IF ~keyword THEN <<>>
       ELSE IF CountIn(content, {"use code CODE"}) < 6
            THEN << Issue("keyword_density_low", "warning") >>
       ELSE IF CountIn(content, {"use code CODE"}) > 9
            THEN << Issue("keyword_density_high", "warning") >>
       ELSE <<>>)

\* per markdown link with an http(s) URL: the one-word anchor and the domain
\* outside ALLOWED_DOMAINS
RECURSIVE LinkIssues(_, _)
LinkIssues(content, i) ==
    IF i > Len(content) THEN <<>>
    ELSE (IF content[i] = "[here](https://other.com/x)"
          THEN << Issue("short_anchor", "warning"), Issue("external_link", "info") >>
          ELSE <<>>)
         \o LinkIssues(content, i + 1)

check_link_quality(content) == LinkIssues(content, 1)

CountSeverity(issues, severity) ==
    Cardinality({i \in 1..Len(issues) : issues[i].severity = severity})

\* the score without the floor at zero
ScoreUnfloored(error_count, warning_count) ==
    100 - error_count * 15 - warning_count * 5

ScoreOf(error_count, warning_count) ==
    Max(0, 100 - error_count * 15 - warning_count * 5)

\* the issues of one check, by its name
CheckIssues(check, in) ==
    CASE check = "banned" -> check_banned_phrases(in.content)
      [] check = "responsible" -> check_responsible_gaming(in.content)
      [] check = "cta" -> check_cta_links(in.content)
      [] check = "seo" -> check_seo(in.content)
      [] check = "offer_facts" -> check_offer_facts(in.content, in.offer, in.keyword)
      [] check = "link_quality" ->
            IF in.check_links THEN check_link_quality(in.content) ELSE <<>>

RECURSIVE RunChecks(_, _, _)
RunChecks(order, in, i) ==
    IF i > Len(order) THEN <<>>
    ELSE CheckIssues(order[i], in) \o RunChecks(order, in, i + 1)

ResultOf(issues) ==
    [valid |-> CountSeverity(issues, "error") = 0,
     issues |-> issues,
     compliance_score |-> ScoreOf(CountSeverity(issues, "error"),
                                  CountSeverity(issues, "warning"))]

\* the order in which validate_content runs the checks
CheckOrder == <<"banned", "responsible", "cta", "seo", "offer_facts", "link_quality">>

validate_content(in) == ResultOf(RunChecks(CheckOrder, in, 1))

CompInit ==
    /\ PlanIdle /\ RtIdle /\ InjIdle /\ DraftIdle /\ LinkIdle /\ CallIdle /\ SecIdle /\ StIdle /\ ReqIdle /\ ApIdle /\ TryIdle /\ IxIdle
    /\ c_pc = "start"
    /\ c_in \in [content : SeqsUpTo(Chunks, MaxChunks),
                 offer : BOOLEAN, keyword : BOOLEAN, check_links : BOOLEAN]
    /\ c_result = NoResult

ValidateContent ==
    /\ c_pc = "start"
    /\ c_result' = validate_content(c_in)
    /\ c_pc' = "done"
    /\ UNCHANGED <<c_in, compRest>>

CompNext == ValidateContent

SpecCompliance == CompInit /\ [][CompNext]_vars

HasChunk(chunk) == \E i \in 1..Len(c_in.content) : c_in.content[i] = chunk

\* the content has the characters "guaranteed win" somewhere
ContainsGuaranteedWin == HasChunk("guaranteed win") \/ HasChunk("unguaranteed win")

NoResponsiblePhrase == ~\E i \in 1..Len(c_in.content) : HasResponsiblePhrase(c_in.content[i])

\* C7 as stated: content with the phrase "guaranteed win" and no
\* responsible-gaming phrase is invalid and scores at most 70.
C7_GuaranteedWinScore ==
    (c_pc = "done" /\ ContainsGuaranteedWin /\ NoResponsiblePhrase)
        => (~c_result.valid /\ c_result.compliance_score <= 70)

\* C7: content with the words "guaranteed win" and no responsible-gaming
\* phrase is invalid and scores at most 85; it scores at most 70 when it also
\* has a betting trigger word (bet, wager, parlay, gambl..., sportsbook).
C7_GuaranteedWinWithTrigger ==
    (c_pc = "done" /\ HasChunk("guaranteed win") /\ NoResponsiblePhrase)
        => /\ ~c_result.valid
           /\ c_result.compliance_score <= 85
           /\ (\E i \in 1..Len(c_in.content) : HasBetTrigger(c_in.content[i]))
                 => c_result.compliance_score <= 70

C7_Witness ==
    /\ c_pc = "done"
    /\ HasChunk("guaranteed win") /\ HasChunk("place a bet")
    /\ NoResponsiblePhrase
    /\ ~c_result.valid
    /\ c_result.compliance_score <= 70

\* the number of issues of one severity collected when the checks run in the
\* order p of CheckOrder, n[i] being the number that check CheckOrder[i] reports
CountInOrder(n, p) == n[p[1]] + n[p[2]] + n[p[3]] + n[p[4]] + n[p[5]] + n[p[6]]

\* the number of issues of one severity that each check of CheckOrder reports
PerCheck(in, severity) ==
    << CountSeverity(CheckIssues(CheckOrder[1], in), severity),
       CountSeverity(CheckIssues(CheckOrder[2], in), severity),
       CountSeverity(CheckIssues(CheckOrder[3], in), severity),
       CountSeverity(CheckIssues(CheckOrder[4], in), severity),
       CountSeverity(CheckIssues(CheckOrder[5], in), severity),
       CountSeverity(CheckIssues(CheckOrder[6], in), severity) >>

\* C8: the score is max(0, 100 - 15E - 5W) and valid is E = 0, where E and W
\* count the error and warning issues; info issues change neither, and every
\* order of running the checks gives the same two values.
C8_ScoreFormula ==
    c_pc = "done" =>
        LET E == CountSeverity(c_result.issues, "error")
            W == CountSeverity(c_result.issues, "warning")
            noInfo == SelectSeq(c_result.issues, LAMBDA x : x.severity # "info")
            perE == PerCheck(c_in, "error")
            perW == PerCheck(c_in, "warning")
        IN /\ c_result.compliance_score = (IF 100 - 15 * E - 5 * W > 0
                                           THEN 100 - 15 * E - 5 * W ELSE 0)
           /\ c_result.valid = (E = 0)
           /\ ResultOf(noInfo).compliance_score = c_result.compliance_score
           /\ ResultOf(noInfo).valid = c_result.valid
           /\ \A p \in Permutations(1..6) :
                 /\ ScoreOf(CountInOrder(perE, p), CountInOrder(perW, p))
                        = c_result.compliance_score
                 /\ (CountInOrder(perE, p) = 0) = c_result.valid

C8_Witness ==
    /\ c_pc = "done"
    /\ 100 - 15 * CountSeverity(c_result.issues, "error")
           - 5 * CountSeverity(c_result.issues, "warning") < 0
    /\ CountSeverity(c_result.issues, "info") > 0
    /\ c_result.compliance_score = 0

(***************************************************************************)
(* Internal link suggestions (InternalLinksStore.suggest_links)            *)
(***************************************************************************)
MAX_RETRIES == 3

\* the operators of OPERATOR_PATTERNS, in the order of the list
OPERATOR_PATTERNS == <<"bet365", "fanduel", "draftkings">>

\* str.lower() on the words of brands, titles and operator fields
LowerWord(w) ==
    CASE w = "FanDuel" -> "fanduel"
      [] w = "DraftKings" -> "draftkings"
      [] w = "Bet365" -> "bet365"
      [] OTHER -> w

RECURSIVE FirstPattern(_, _)
FirstPattern(words, i) ==
    IF i > Len(OPERATOR_PATTERNS) THEN ""
    ELSE IF \E j \in 1..Len(words) : LowerWord(words[j]) = OPERATOR_PATTERNS[i]
         THEN OPERATOR_PATTERNS[i]
         ELSE FirstPattern(words, i + 1)

\* text is a sequence of words
_normalize_operator(text) == IF text = <<>> THEN "" ELSE FirstPattern(text, 1)

\* the words of a URL
UrlWords(url) ==
    CASE url = "https://x/fanduel-promo" -> <<"https", "x", "fanduel", "promo">>
      [] OTHER -> <<url>>

_link_operator(item) ==
    IF LowerWord(item.operator) # ""
    THEN LowerWord(item.operator)
    ELSE _normalize_operator(item.title \o UrlWords(item.url))

LinkItem(title, url, operator, always_include) ==
    [title |-> title, url |-> url, operator |-> operator, always_include |-> always_include]

\* records an index can hold
IndexItems ==
    { LinkItem(<<"FanDuel", "promo">>, "https://x/a", "", FALSE),
      LinkItem(<<"Best", "odds">>, "https://x/fanduel-promo", "", FALSE),
      LinkItem(<<"Best", "apps">>, "https://x/b", "FanDuel", FALSE),
      LinkItem(<<"DraftKings", "review">>, "https://x/c", "", FALSE),
      LinkItem(<<"Betting", "guide">>, "https://x/d", "", FALSE),
      LinkItem(<<"Betting", "guide">>, "https://x/d", "", TRUE) }

InternalLinkSpec(url, operator, always_include) ==
    [url |-> url, operator |-> operator, always_include |-> always_include]

\* REQUIRED_LINKS_BY_PROPERTY of the store's property
RequiredRecords ==
    << InternalLinkSpec("https://x/reviews", "", TRUE),
       InternalLinkSpec("https://x/states", "", TRUE),
       InternalLinkSpec("https://x/reviews", "", TRUE) >>

\* str.strip() and str.lower() on the URLs
StripUrl(url) == IF url = " https://x/d " THEN "https://x/d" ELSE url

LowerUrl(url) == IF url = "https://x/D" THEN "https://x/d" ELSE url

\* a flag test that takes every record for flagged
IsFlaggedAlways(item) == TRUE

\* bool(item.get("always_include", False))
IsFlagged(item) == item.always_include

RECURSIVE AlwaysInclude(_, _)
AlwaysInclude(items, i) ==
    IF i > Len(items) THEN <<>>
    ELSE (IF IsFlagged(items[i]) /\ items[i].title # <<>> /\ StripUrl(items[i].url) # ""
          THEN << InternalLinkSpec(StripUrl(items[i].url), _link_operator(items[i]), TRUE) >>
          ELSE <<>>)
         \o AlwaysInclude(items, i + 1)

\* _read_index_items: the items of the index JSON, [] when it cannot be read
_read_index_items(disk) ==
    IF disk.state \in {"ok", "bad_vectors"} THEN disk.items ELSE <<>>

\* _read_source_items: the records of the source JSONL that have a title and a
\* URL, both stripped
RECURSIVE _read_source_items(_)
_read_source_items(source) ==
    IF source = <<>> THEN <<>>
    ELSE (IF source[1].title # <<>> /\ StripUrl(source[1].url) # ""
          THEN << [source[1] EXCEPT !.url = StripUrl(source[1].url)] >>
          ELSE <<>>)
         \o _read_source_items(Tail(source))

\* the items _always_include_links reads: the store's, else the index file's,
\* else the source records
GuaranteedSource(store, disk) ==
    IF store.items # <<>> THEN store.items
    ELSE IF _read_index_items(disk) # <<>> THEN _read_index_items(disk)
    ELSE _read_source_items(disk.source)

_always_include_links(store, disk) == AlwaysInclude(GuaranteedSource(store, disk), 1)

RECURSIVE DedupeByUrl(_, _, _)
DedupeByUrl(links, i, seen_urls) ==
    IF i > Len(links) THEN <<>>
    ELSE LET url == LowerUrl(StripUrl(links[i].url))
         IN IF url = "" \/ url \in seen_urls
            THEN DedupeByUrl(links, i + 1, seen_urls)
            ELSE <<links[i]>> \o DedupeByUrl(links, i + 1, seen_urls \cup {url})

_required_links(store, disk) ==
    DedupeByUrl(RequiredRecords \o _always_include_links(store, disk), 1, {})

\* the store after _load_index: json.load assigns _items before np.load runs
_load_index(store, disk) ==
    CASE disk.state = "ok" -> [items |-> disk.items, vectors |-> TRUE, loaded |-> TRUE]
      [] disk.state = "bad_vectors" -> [store EXCEPT !.items = disk.items]
      [] OTHER -> store

\* the store after _ensure_loaded; its return value is the loaded field
_ensure_loaded(store, disk) ==
    IF store.loaded THEN store
    ELSE IF disk.state = "missing" THEN store
    ELSE _load_index(store, disk)

\* variant of OperatorConflict that lets every candidate through
OperatorConflictNever(target_operator, item_operator) == FALSE

\* the article is for a known operator and the item belongs to another one
OperatorConflict(target_operator, item_operator) ==
    target_operator # "" /\ item_operator # "" /\ item_operator # target_operator

\* the loop over ranked_idx[:max_candidates]
RECURSIVE PickRanked(_, _, _, _, _, _, _)
PickRanked(items, ranked_idx, n, target_operator, k, picked, seen_urls) ==
    IF n > Len(ranked_idx) THEN picked
    ELSE LET item == [items[ranked_idx[n]] EXCEPT !.url = StripUrl(@)]
             item_operator == _link_operator(item)
         IN IF item.url = "" \/ item.url \in seen_urls
            THEN PickRanked(items, ranked_idx, n + 1, target_operator, k, picked, seen_urls)
            ELSE IF OperatorConflict(target_operator, item_operator)
            THEN PickRanked(items, ranked_idx, n + 1, target_operator, k, picked, seen_urls)
            ELSE IF Len(picked) + 1 >= k
            THEN Append(picked, InternalLinkSpec(item.url, item_operator, item.always_include))
            ELSE PickRanked(items, ranked_idx, n + 1, target_operator, k,
                            Append(picked, InternalLinkSpec(item.url, item_operator,
                                                            item.always_include)),
                            seen_urls \cup {item.url})

LinkBrands == { <<>>, <<"DraftKings">>, <<"FanDuel", "Sportsbook">>, <<"Acme">> }

LinkInit ==
    /\ PlanIdle /\ RtIdle /\ InjIdle /\ DraftIdle /\ CompIdle /\ CallIdle /\ SecIdle /\ StIdle /\ ReqIdle /\ ApIdle /\ TryIdle /\ IxIdle
    /\ l_pc = "start"
    /\ l_disk \in [state : {"missing", "bad_json", "bad_vectors", "ok"},
                   items : SeqsUpTo(IndexItems, MaxItems),
                   source : { <<>> }]
    /\ (l_disk.state = "missing" => l_disk.items = <<>>)
    /\ l_store = NoStore
    /\ l_req \in [brand : LinkBrands, k : 0..2]
    /\ l_required = <<>>
    /\ l_attempt = 0
    /\ l_out = NoLinks

\* suggest_links up to the embedding request
SuggestLinks ==
    /\ l_pc = "start"
    /\ l_required' = _required_links(l_store, l_disk)
    /\ l_store' = _ensure_loaded(l_store, l_disk)
    /\ IF ~l_store'.loaded \/ ~l_store'.vectors \/ Len(l_store'.items) = 0
       THEN l_out' = [raised |-> FALSE, links |-> l_required', ranked_idx |-> <<>>]
            /\ l_pc' = "done"
       ELSE l_out' = l_out /\ l_pc' = "embedding"
    /\ UNCHANGED <<l_disk, l_req, l_attempt, linkRest>>

\* the embedding request fails with a retryable error and is tried again
EmbeddingRetry ==
    /\ l_pc = "embedding"
    /\ l_attempt < MAX_RETRIES - 1
    /\ l_attempt' = l_attempt + 1
    /\ UNCHANGED <<l_pc, l_disk, l_store, l_req, l_required, l_out, linkRest>>

\* the embedding request fails for good: a retryable error on the last
\* attempt, or any other exception on any attempt
EmbeddingRaises ==
    /\ l_pc = "embedding"
    /\ \E retryable \in BOOLEAN : retryable => l_attempt = MAX_RETRIES - 1
    /\ l_out' = [raised |-> TRUE, links |-> <<>>, ranked_idx |-> <<>>]
    /\ l_pc' = "done"
    /\ UNCHANGED <<l_disk, l_store, l_req, l_required, l_attempt, linkRest>>

\* the embedding arrives; ranked_idx is the order of the similarities
EmbeddingArrives ==
    /\ l_pc = "embedding"
    /\ \E ranked_idx \in Permutations(1..Len(l_store.items)) :
          l_out' = [raised |-> FALSE,
                    ranked_idx |-> ranked_idx,
                    links |-> l_required \o
                        PickRanked(l_store.items, ranked_idx, 1,
                                   _normalize_operator(l_req.brand), l_req.k, <<>>,
                                   {l_required[i].url : i \in 1..Len(l_required)})]
    /\ l_pc' = "done"
    /\ UNCHANGED <<l_disk, l_store, l_req, l_required, l_attempt, linkRest>>

LinkNext == SuggestLinks \/ EmbeddingRetry \/ EmbeddingRaises \/ EmbeddingArrives

SpecLinks == LinkInit /\ [][LinkNext]_vars

\* the ranked part of the result: what follows the required links
RankedLinks == SubSeq(l_out.links, Len(l_required) + 1, Len(l_out.links))

\* C9: for a brand whose operator is recognised, no ranked link of the result
\* carries another operator's tag; links without a tag stay eligible.
C9_NoCompetitorLinks ==
    (l_pc = "done" /\ ~l_out.raised /\ _normalize_operator(l_req.brand) # "")
        => \A i \in 1..Len(RankedLinks) :
              RankedLinks[i].operator \in {"", _normalize_operator(l_req.brand)}

\* a conflicting item ranked first was dropped, an untagged one was picked
C9_Witness ==
    /\ l_pc = "done" /\ ~l_out.raised
    /\ _normalize_operator(l_req.brand) = "draftkings"
    /\ Len(l_store.items) >= 2
    /\ \E i \in 1..Len(l_store.items) : _link_operator(l_store.items[i]) = "fanduel"
    /\ \E i \in 1..Len(RankedLinks) : RankedLinks[i].operator = ""
    /\ \E i \in 1..Len(RankedLinks) : RankedLinks[i].operator = "draftkings"

\* the ranked links are taken from the items in the order of ranked_idx
InRankedOrder ==
    \E f \in [1..Len(RankedLinks) -> 1..Len(l_out.ranked_idx)] :
        /\ \A i, j \in 1..Len(RankedLinks) : i < j => f[i] < f[j]
        /\ \A i \in 1..Len(RankedLinks) :
              RankedLinks[i].url = StripUrl(l_store.items[l_out.ranked_idx[f[i]]].url)

\* C23: the list suggest_links returns is the property's guaranteed links, in
\* their order, followed by at most k ranked candidates in descending
\* similarity order, and no URL occurs twice in it.
C23_RequiredThenTopK ==
    (l_pc = "done" /\ ~l_out.raised) =>
        /\ Len(l_out.links) >= Len(l_required)
        /\ SubSeq(l_out.links, 1, Len(l_required)) = _required_links(l_store, l_disk)
        /\ Len(RankedLinks) <= l_req.k
        /\ InRankedOrder
        /\ \A i, j \in 1..Len(l_out.links) :
              l_out.links[i].url = l_out.links[j].url => i = j

\* the same for the calls that ask for at least one candidate
C23_RequiredThenTopKPositive ==
    l_req.k >= 1 => C23_RequiredThenTopK

\* C10: suggest_links never raises; when the index is missing or cannot be
\* loaded, or the embedding request fails, it returns the required links.
C10_NeverRaises ==
    l_pc = "done" =>
        /\ ~l_out.raised
        /\ (~l_store.loaded => l_out.links = _required_links(l_store, l_disk))

(***************************************************************************)
(* generate_structured_outline from its entry to the structured call       *)
(***************************************************************************)
\* a replacement field of an f-string: the value of its expression and the
\* format specification that follows the colon
Field(value, spec) == [value |-> value, spec |-> spec]

\* the system prompt of generate_structured_outline: its replacement fields in
\* order (the braces of the JSON example open replacement fields)
SystemPromptFields(pm) ==
    << Field(IF pm THEN "prediction market" ELSE "sports betting", ""),
       Field("level",
             " \"intro\", \"title\": \"\", \"talking_points\": [\"point 1\", \"point 2\"], \"avoid\": []"),
       Field("level", " \"shortcode\", \"title\": \"\", \"talking_points\": [], \"avoid\": []"),
       Field("level", " \"h2\", \"title\": \"Section Title\", ..."),
       Field(IF pm THEN "Use prediction-market language"
                   ELSE "Use natural sportsbook language", "") >>

\* format specifications str.__format__ accepts
StrFormatSpecs == { "", "s", "<10", ">10", "^10", ".3" }

\* format(value, spec) for a str value: the text, or ValueError
FormatStr(value, spec) ==
    IF spec \in StrFormatSpecs
    THEN [raised |-> FALSE, text |-> <<value>>]
    ELSE [raised |-> TRUE, text |-> <<>>]

\* evaluating an f-string: the fields are formatted in order, the first
\* ValueError ends the evaluation
RECURSIVE RenderFields(_, _, _)
RenderFields(fields, i, acc) ==
    IF i > Len(fields) THEN [raised |-> FALSE, text |-> acc]
    ELSE LET r == FormatStr(fields[i].value, fields[i].spec)
         IN IF r.raised THEN r
            ELSE RenderFields(fields, i + 1, acc \o r.text)

CallInit ==
    /\ PlanIdle /\ RtIdle /\ InjIdle /\ DraftIdle /\ CompIdle /\ LinkIdle /\ SecIdle /\ StIdle /\ ReqIdle /\ ApIdle /\ TryIdle /\ IxIdle
    /\ g_pc = "entry"
    /\ g_args \in [keyword : Keywords, event_context : Matchups, bet_example : BetExamples,
                   competitor_context : { <<>>, <<"C">> }, pm : BOOLEAN]
    /\ g_rag = <<>>

\* the style references: query_articles answers, or raises and leaves none
QueryArticles ==
    /\ g_pc = "entry"
    /\ \/ g_rag' = <<"snippet">>
       \/ g_rag' = <<>>
    /\ g_pc' = "prompts"
    /\ UNCHANGED <<g_args, callRest>>

\* the system prompt is evaluated before the try block
BuildSystemPrompt ==
    /\ g_pc = "prompts"
    /\ g_pc' = IF RenderFields(SystemPromptFields(g_args.pm), 1, <<>>).raised
               THEN "raised" ELSE "call"
    /\ UNCHANGED <<g_args, g_rag, callRest>>

CallNext == QueryArticles \/ BuildSystemPrompt

SpecPlanCall == CallInit /\ [][CallNext]_vars

\* C11: generate_structured_outline never raises to its caller.
C11_OutlineNeverRaises == g_pc # "raised"


(***************************************************************************)
(* Eligibility states of an offer's terms (app/services/offer_parsing.py)  *)
(*                                                                         *)
(* A terms text is a sequence of atoms, each standing for the characters   *)
(* it spells, its trailing space included: "available in ", "not ", "NJ ". *)
(***************************************************************************)
AvailableIn == "available in "
NewCustomersIn == "new customers in "
FollowingStates == "in the following states: "
PhysicallyPresentIn == "physically present in "
NotWord == "not "

\* number of characters of an atom
AtomChars(a) ==
    CASE a = NotWord -> 4
      [] a = AvailableIn -> 13
      [] a = NewCustomersIn -> 17
      [] a = FollowingStates -> 25
      [] a = PhysicallyPresentIn -> 22
      [] a = "currently " -> 10
      [] a = "select states " -> 14
      [] a = "only " -> 5
      [] a = ". " -> 2
      [] OTHER -> 3

\* _STATE_CODE_PATTERN on the atoms: the code an atom spells, <<>> for none
StateCodeOf(a) ==
    CASE a = "NJ " -> <<"NJ">>
      [] a = "NY " -> <<"NY">>
      [] OTHER -> <<>>

RECURSIVE _dedupe_preserve(_)
_dedupe_preserve(values) ==
    IF values = <<>> THEN <<>>
    ELSE LET init == _dedupe_preserve(SubSeq(values, 1, Len(values) - 1))
             v == values[Len(values)]
         IN IF \E i \in 1..Len(init) : init[i] = v THEN init ELSE Append(init, v)

\* the atoms hold no state name, so the codes found are those of the code pattern
RECURSIVE FoundCodes(_)
FoundCodes(fragment) ==
    IF fragment = <<>> THEN <<>>
    ELSE StateCodeOf(fragment[1]) \o FoundCodes(Tail(fragment))

_extract_state_codes_from_fragment(fragment) == _dedupe_preserve(FoundCodes(fragment))

\* the four patterns, in the order the code tries them
StatePatterns == <<FollowingStates, AvailableIn, NewCustomersIn, PhysicallyPresentIn>>

\* the alternatives that end a pattern's fragment, besides the end of the text
IsTerminator(opener, a) ==
    \/ a = ". "
    \/ a = "; "
    \/ a = "only " /\ opener \in {AvailableIn, NewCustomersIn}
    \/ a = "in order to wager " /\ opener = PhysicallyPresentIn

\* index of the atom that ends a fragment starting at j: the first terminator
\* after j, or Len + 1; the fragment (.+?) takes the atom at j whatever it is
RECURSIVE FragmentEnd(_, _, _)
FragmentEnd(terms, opener, j) ==
    IF j > Len(terms) THEN j
    ELSE IF IsTerminator(opener, terms[j]) THEN j
    ELSE FragmentEnd(terms, opener, j + 1)

\* re.finditer(pattern, lower): the non-overlapping matches from atom i on,
\* each [start, first, last] with the fragment at first..last
RECURSIVE PatternMatches(_, _, _)
PatternMatches(terms, opener, i) ==
    IF i >= Len(terms) THEN <<>>
    ELSE IF terms[i] = opener
         THEN LET e == FragmentEnd(terms, opener, i + 2)
              IN <<[start |-> i, first |-> i + 1, last |-> e - 1]>>
                 \o PatternMatches(terms, opener, e + 1)
    ELSE PatternMatches(terms, opener, i + 1)

\* characters of the atoms k..(i - 1)
RECURSIVE CharsBetween(_, _, _)
CharsBetween(terms, k, i) ==
    IF k >= i THEN 0 ELSE AtomChars(terms[k]) + CharsBetween(terms, k + 1, i)

PrefixWindow == 12

\* "not " in lower[max(0, start - 12):start]
NotInPrefix(terms, start) ==
    \E k \in 1..(start - 1) :
        terms[k] = NotWord /\ CharsBetween(terms, k, start) <= PrefixWindow

\* the codes of the matches of all patterns, in the order the loops visit them,
\* without the matches the prefix test skips and those that hold no code
RECURSIVE MatchCodes(_, _, _)
MatchCodes(terms, matches, i) ==
    IF i > Len(matches) THEN <<>>
    ELSE LET m == matches[i]
             codes == _extract_state_codes_from_fragment(SubSeq(terms, m.first, m.last))
         IN IF NotInPrefix(terms, m.start) \/ codes = <<>>
            THEN MatchCodes(terms, matches, i + 1)
            ELSE <<codes>> \o MatchCodes(terms, matches, i + 1)

AllMatches(terms) ==
    PatternMatches(terms, StatePatterns[1], 1) \o PatternMatches(terms, StatePatterns[2], 1)
        \o PatternMatches(terms, StatePatterns[3], 1) \o PatternMatches(terms, StatePatterns[4], 1)

\* re.search(r"(?<!not\s)available in", lower)
has_positive_available(terms) ==
    \E i \in 1..Len(terms) :
        terms[i] = AvailableIn /\ (i = 1 \/ terms[i - 1] # NotWord)

positive_cues == {FollowingStates, NewCustomersIn, PhysicallyPresentIn}

\* the condition of the whole-text fallback
fallback_applies(terms) ==
    has_positive_available(terms) \/ \E i \in 1..Len(terms) : terms[i] \in positive_cues

extract_states_from_terms(terms) ==
    IF terms = <<>> THEN <<>>
    ELSE LET hits == MatchCodes(terms, AllMatches(terms), 1)
         IN IF hits # <<>> THEN hits[1]
            ELSE IF fallback_applies(terms)
                 THEN _extract_state_codes_from_fragment(terms)
            ELSE <<>>

MaxStatesLen == 5

TermsVocabulary ==
    {NotWord, AvailableIn, NewCustomersIn, "currently ", "select states ", "only ", ". ",
     "NJ ", "NY "}

StInit ==
    /\ PlanIdle /\ RtIdle /\ InjIdle /\ DraftIdle /\ CompIdle /\ LinkIdle /\ CallIdle /\ SecIdle /\ ReqIdle /\ ApIdle /\ TryIdle /\ IxIdle
    /\ st_pc = "start"
    /\ st_terms \in SeqsUpTo(TermsVocabulary, MaxStatesLen)
    /\ st_out = <<>>

ExtractStates ==
    /\ st_pc = "start"
    /\ st_out' = extract_states_from_terms(st_terms)
    /\ st_pc' = "done"
    /\ UNCHANGED <<st_terms, stRest>>

StNext == ExtractStates

SpecStates == StInit /\ [][StNext]_vars


\* atoms of a clause "not available in ...": from the words up to the next
\* full stop
RECURSIVE InNegativeClause(_, _)
InNegativeClause(terms, i) ==
    /\ i >= 3
    /\ terms[i - 1] # ". "
    /\ \/ terms[i - 2] = NotWord /\ terms[i - 1] = AvailableIn
       \/ InNegativeClause(terms, i - 1)

\* the state appears in the terms, and only inside negative clauses
OnlyExcluded(terms, code) ==
    /\ \E i \in 1..Len(terms) : StateCodeOf(terms[i]) = <<code>>
    /\ \A i \in 1..Len(terms) :
          StateCodeOf(terms[i]) = <<code>> => InNegativeClause(terms, i)

\* C21: a state that the terms name only inside a "not available in" clause is
\* never in the result of extract_states_from_terms.
C21_NoExcludedState ==
    st_pc = "done" =>
        \A i \in 1..Len(st_out) : ~OnlyExcluded(st_terms, st_out[i])



(***************************************************************************)
(* Required links of a property (InternalLinksStore.get_required_links)    *)
(***************************************************************************)
MaxReqItems == 2

\* records a store, an index or a source file can hold
ReqItems ==
    { LinkItem(<<"Betting", "guide">>, "https://x/d", "", TRUE),
      LinkItem(<<"Betting", "guide">>, "https://x/D", "", TRUE),
      LinkItem(<<"Betting", "guide">>, " https://x/d ", "", TRUE),
      LinkItem(<<"Best", "apps">>, "https://x/b", "FanDuel", FALSE),
      LinkItem(<<>>, "https://x/e", "", TRUE),
      LinkItem(<<"Reviews">>, "https://x/reviews", "", TRUE) }

\* at most one record
OneOrNone(S) == { <<>> } \cup { <<x>> : x \in S }

ReqInit ==
    /\ PlanIdle /\ RtIdle /\ InjIdle /\ DraftIdle /\ CompIdle /\ LinkIdle /\ CallIdle /\ SecIdle /\ StIdle /\ ApIdle /\ TryIdle /\ IxIdle
    /\ rq_pc = "start"
    /\ \E items \in OneOrNone(ReqItems) :
          rq_store = [items |-> items, vectors |-> items # <<>>, loaded |-> items # <<>>]
    /\ rq_disk \in [state : {"missing", "bad_json", "bad_vectors", "ok"},
                    items : SeqsUpTo(ReqItems, MaxReqItems),
                    source : OneOrNone(ReqItems)]
    /\ (rq_disk.state = "missing" => rq_disk.items = <<>>)
    /\ rq_out = <<>>

GetRequiredLinks ==
    /\ rq_pc = "start"
    /\ rq_out' = _required_links(rq_store, rq_disk)
    /\ rq_pc' = "done"
    /\ UNCHANGED <<rq_store, rq_disk, reqRest>>

ReqNext == GetRequiredLinks

SpecRequired == ReqInit /\ [][ReqNext]_vars


\* the records the list is taken from: the loaded index, else the persisted
\* index, else the source records
RecordsInForce ==
    IF rq_store.items # <<>> THEN rq_store.items
    ELSE IF rq_disk.state \in {"ok", "bad_vectors"} /\ rq_disk.items # <<>> THEN rq_disk.items
    ELSE rq_disk.source

StaticUrls == [i \in 1..Len(RequiredRecords) |-> RequiredRecords[i].url]

\* the entries of urls whose key no earlier entry has
FirstByKey(urls, Key(_)) ==
    SelectSeq([i \in 1..Len(urls) |->
                  [url |-> urls[i],
                   first |-> \A j \in 1..(i - 1) : Key(urls[j]) # Key(urls[i])]],
              LAMBDA r : r.first)

UrlsOf(entries) == [i \in 1..Len(entries) |-> entries[i].url]

OutUrls == [i \in 1..Len(rq_out) |-> rq_out[i].url]

TrimmedUrl(u) == IF u = " https://x/d " THEN "https://x/d" ELSE u

UrlKey(u) == IF TrimmedUrl(u) \in {"https://x/d", "https://x/D"} THEN "https://x/d" ELSE TrimmedUrl(u)

\* a record that is a link: it has a title and a URL
IsLinkRecord(item) == item.title # <<>> /\ TrimmedUrl(item.url) # ""

\* the flagged records in force that are links, their URLs trimmed
FlaggedLinkUrls ==
    LET links == SelectSeq(RecordsInForce, LAMBDA r : r.always_include /\ IsLinkRecord(r))
    IN [i \in 1..Len(links) |-> TrimmedUrl(links[i].url)]

SameUrl(u) == u

\* C22 as stated: the static links followed by every flagged link record,
\* without the entries whose URL an earlier entry has.
C22_RequiredLinksExactUrl ==
    rq_pc = "done" =>
        OutUrls = UrlsOf(FirstByKey(StaticUrls \o FlaggedLinkUrls, SameUrl))

\* C22: the list is the static required links followed by the flagged link
\* records in force (title and URL present, URL trimmed), without the entries
\* whose URL, compared without regard to case, an earlier entry has; a record
\* whose flag is false is never added.
C22_RequiredLinks ==
    rq_pc = "done" =>
        /\ OutUrls = UrlsOf(FirstByKey(StaticUrls \o FlaggedLinkUrls, UrlKey))
        /\ \A i, j \in 1..Len(rq_out) : rq_out[i].url = rq_out[j].url => i = j
        /\ \A i \in 1..Len(rq_out) :
              \/ \E j \in 1..Len(StaticUrls) : StaticUrls[j] = rq_out[i].url
              \/ \E j \in 1..Len(RecordsInForce) :
                    /\ RecordsInForce[j].always_include
                    /\ TrimmedUrl(RecordsInForce[j].url) = rq_out[i].url

\* the index holds a flagged link, its URL in another case, and the list has
\* the static links and the first of the two
C22_Witness ==
    /\ rq_pc = "done"
    /\ rq_store.items = <<>>
    /\ rq_disk.state = "ok"
    /\ Len(rq_disk.items) = 2
    /\ rq_disk.items[1].url = "https://x/d" /\ rq_disk.items[1].always_include
    /\ rq_disk.items[2].url = "https://x/D" /\ rq_disk.items[2].always_include
    /\ rq_disk.source # <<>>
    /\ OutUrls = <<"https://x/reviews", "https://x/states", "https://x/d">>



(***************************************************************************)
(* Guaranteed links of the assembled document (app/services/draft.py)      *)
(***************************************************************************)
MaxLinkChunks == 2

\* pieces of section text that mention the guaranteed links in one way or
\* another
LinkChunks ==
    { <<"<p>text</p>">>,
      LinkHtml(ReviewsAnchor, ReviewsUrl),
      LinkHtml(StatesAnchor, StatesUrl),
      LinkHtml(_prediction_market_safe_text(StatesAnchor), StatesUrl),
      <<"<p>">> \o StatesAnchor \o <<"</p>">>,
      <<"<p>">> \o <<"Best ", "Betting", " Sites">> \o <<"</p>">>,
      <<"<p>">> \o ReviewsUrl \o <<"</p>", " ">> }

\* lists of required links a property's store can return
RequiredLists ==
    { <<>>,
      PropertyLinks,
      << RequiredLink(<<"Guide">>, <<>>, << <<"guide">> >>),
         RequiredLink(<<" ">>, StatesUrl, <<>>),
         RequiredLink(<<" ", "Best ", "Betting", " Sites">>, ReviewsUrl, <<>>),
         PropertyLinks[2], PropertyLinks[2] >> }

ApInit ==
    /\ PlanIdle /\ RtIdle /\ InjIdle /\ DraftIdle /\ CompIdle /\ LinkIdle /\ CallIdle
    /\ SecIdle /\ StIdle /\ ReqIdle /\ TryIdle /\ IxIdle
    /\ ap_pc = "start"
    /\ \E parts \in SeqsUpTo(LinkChunks, MaxLinkChunks), required \in RequiredLists,
          pm \in BOOLEAN :
          ap_in = [html |-> JoinParts(parts), required |-> required, pm |-> pm]
    /\ ap_out = <<>>

\* html_output = _append_required_property_links("\n".join(parts), ...)
AppendRequiredLinks ==
    /\ ap_pc = "start"
    /\ ap_out' = _append_required_property_links(ap_in.html, ap_in.required, ap_in.pm)
    /\ ap_pc' = "done"
    /\ UNCHANGED <<ap_in, apRest>>

ApNext == AppendRequiredLinks

SpecAppend == ApInit /\ [][ApNext]_vars

\* the guaranteed links of the request that have a URL and an anchor
GuaranteedLinks ==
    { i \in 1..Len(ap_in.required) :
        ap_in.required[i].url # <<>> /\ LinkAnchor(ap_in.required[i], ap_in.pm) # <<>> }

GuaranteedLinkInDocument(i) ==
    \E j \in 1..Len(ap_out) :
        LET link == LinkHtml(LinkAnchor(ap_in.required[i], ap_in.pm), ap_in.required[i].url)
        IN /\ j + Len(link) - 1 <= Len(ap_out)
           /\ LowerStr(SubSeq(ap_out, j, j + Len(link) - 1)) = LowerStr(link)

\* C25: in a non-empty document every guaranteed link of the property that has
\* a URL and an anchor stands as a link with that anchor and that URL.
C25_GuaranteedLinksPresent ==
    (ap_pc = "done" /\ ap_in.html # <<>>) =>
        \A i \in GuaranteedLinks : GuaranteedLinkInDocument(i)

(***************************************************************************)
(* Provider requests with retry and backoff (app/services/llm.py)          *)
(***************************************************************************)
\* BASE_BACKOFF, in milliseconds
BASE_BACKOFF_MS == 500

\* the exception classes fn() can raise; a subclass of one of the client's
\* classes counts as that class
ExceptionClasses ==
    {"RateLimitError", "APITimeoutError", "APIError", "APIConnectionError", "ValueError"}

RETRYABLE_ERRORS == {"RateLimitError", "APITimeoutError", "APIError", "APIConnectionError"}

\* a wait of the same length after every failed attempt
BackoffFixed(attempt) == BASE_BACKOFF_MS

\* BASE_BACKOFF * (2 ** attempt)
Backoff(attempt) == BASE_BACKOFF_MS * (2 ^ attempt)

Returned(value) == [kind |-> "return", value |-> value]

Raised(class) == [kind |-> "raise", value |-> class]

TryInit ==
    /\ PlanIdle /\ RtIdle /\ InjIdle /\ DraftIdle /\ CompIdle /\ LinkIdle /\ CallIdle
    /\ SecIdle /\ StIdle /\ ReqIdle /\ ApIdle /\ IxIdle
    /\ try_pc = "call"
    /\ try_attempt = 0
    /\ try_log = <<>>
    /\ try_slept = <<>>
    /\ try_out = [kind |-> "none", value |-> ""]

InLoop == try_pc = "call" /\ try_attempt < MAX_RETRIES

\* return await fn()
AttemptReturns ==
    /\ InLoop
    /\ \E value \in {"response 1", "response 2"} :
          /\ try_log' = Append(try_log, Returned(value))
          /\ try_out' = Returned(value)
    /\ try_pc' = "returned"
    /\ UNCHANGED <<try_attempt, try_slept, tryRest>>

\* fn() raises an exception no except clause matches
AttemptRaisesOther ==
    /\ InLoop
    /\ \E class \in ExceptionClasses \ RETRYABLE_ERRORS :
          /\ try_log' = Append(try_log, Raised(class))
          /\ try_out' = Raised(class)
    /\ try_pc' = "raised"
    /\ UNCHANGED <<try_attempt, try_slept, tryRest>>

\* except RETRYABLE_ERRORS: sleep and continue, or raise on the last attempt
AttemptRaisesRetryable ==
    /\ InLoop
    /\ \E class \in RETRYABLE_ERRORS :
          /\ try_log' = Append(try_log, Raised(class))
          /\ IF try_attempt < MAX_RETRIES - 1
             THEN /\ try_slept' = Append(try_slept, Backoff(try_attempt))
                  /\ try_pc' = "sleep"
                  /\ try_out' = try_out
             ELSE /\ try_pc' = "raised"
                  /\ try_out' = Raised(class)
                  /\ try_slept' = try_slept
    /\ UNCHANGED <<try_attempt, tryRest>>

\* asyncio.sleep returns; continue with the next attempt
SleepReturns ==
    /\ try_pc = "sleep"
    /\ try_attempt' = try_attempt + 1
    /\ try_pc' = "call"
    /\ UNCHANGED <<try_log, try_slept, try_out, tryRest>>

TryNext == AttemptReturns \/ AttemptRaisesOther \/ AttemptRaisesRetryable \/ SleepReturns

SpecRetries == TryInit /\ [][TryNext]_vars

\* every awaited request and every sleep comes back
SpecRetriesFair == SpecRetries /\ WF_vars(TryNext)

TryDone == try_pc \in {"returned", "raised"}

IsTransient(entry) ==
    entry.kind = "raise"
        /\ entry.value \in {"RateLimitError", "APITimeoutError", "APIError",
                            "APIConnectionError"}

\* at any moment: at most three attempts, each but the last a transient
\* failure, a wait of 500 ms after the first failure and of 1000 ms after the
\* second, none after the third
AttemptsAndWaits ==
    /\ Len(try_log) <= 3
    /\ \A i \in 1..(Len(try_log) - 1) : IsTransient(try_log[i])
    /\ \E n \in 0..2 : try_slept = SubSeq(<<500, 1000>>, 1, n)
    /\ Len(try_slept) =
          Cardinality({i \in 1..Len(try_log) : i <= 2 /\ IsTransient(try_log[i])})

\* when the call is over: the outcome is that of the last attempt, which is
\* the first success, a failure that is not transient, or the third
\* transient failure
OutcomeOfLastAttempt ==
    TryDone =>
        /\ try_log # <<>>
        /\ try_out = try_log[Len(try_log)]
        /\ try_pc = "returned" <=> try_out.kind = "return"
        /\ IsTransient(try_out) => Len(try_log) = 3

\* C28: a call through _with_openai_retries ends after at most 3 attempts; it
\* returns the first successful attempt's result, waits 0.5*2^n s after the
\* n-th failed attempt (n = 0, 1) and never after the last, re-raises the
\* transient error of the third failed attempt, and raises any other error at
\* once.
C28_BoundedRetries ==
    /\ <>TryDone
    /\ [](AttemptsAndWaits /\ OutcomeOfLastAttempt)

\* the third attempt failed after two waits and its error was raised
C28_Witness ==
    /\ try_pc = "raised"
    /\ Len(try_log) = 3
    /\ try_slept = <<500, 1000>>
    /\ try_out = [kind |-> "raise", value |-> "APITimeoutError"]

-----------------------------------------------------------------------------
\* The store's arrays under interleaved ingest_from_jsonl and suggest_links

\* An array is represented by the ingest that built it and its number of rows.
MaxTasks == 3
MaxRows == 2

Array(g, n) == [ingest |-> g, len |-> n]

\* self._vectors is None; as metadata, the empty list of __init__
NoArray == Array(-1, 0)

\* _load_index: the metadata is assigned before np.load is tried
_load_index_arrays(store, disk) ==
    IF disk.state = "ok"
    THEN [items |-> disk.json, vectors |-> disk.vec, loaded |-> TRUE]
    ELSE [store EXCEPT !.items = disk.json]

\* _ensure_loaded: nothing is read again once the store is loaded
_ensure_loaded_arrays(store, disk) ==
    IF store.loaded THEN store
    ELSE IF disk.state # "missing" THEN _load_index_arrays(store, disk)
    ELSE store

\* an ingest that would replace the metadata and keep vectors it already had
StoreItemsReplaced(store, items, vectors) ==
    [items |-> items,
     vectors |-> IF store.vectors = NoArray THEN vectors ELSE store.vectors,
     loaded |-> TRUE]

\* the three assignments that end ingest_from_jsonl
StoreAfterIngest(store, items, vectors) ==
    [items |-> items, vectors |-> vectors, loaded |-> TRUE]

Task(kind, pc, items) == [kind |-> kind, pc |-> pc, items |-> items]

\* The files hold nothing, or the index an earlier ingest wrote, or that index
\* with a vector file that cannot be read.
IxInit ==
    /\ ix_store = [items |-> NoArray, vectors |-> NoArray, loaded |-> FALSE]
    /\ \E st \in {"missing", "ok", "bad_vectors"} : \E n \in 1..MaxRows :
         ix_disk = IF st = "missing"
                   THEN [state |-> st, json |-> NoArray, vec |-> NoArray]
                   ELSE [state |-> st, json |-> Array(0, n), vec |-> Array(0, n)]
    /\ ix_tasks \in [1..MaxTasks -> {Task(k, "start", NoArray) : k \in {"ingest", "suggest"}}]
    /\ ix_ranked = <<>>
    /\ ix_next = 1
    /\ PlanIdle /\ RtIdle /\ InjIdle /\ DraftIdle /\ CompIdle /\ LinkIdle /\ CallIdle
    /\ SecIdle /\ StIdle /\ ReqIdle /\ ApIdle /\ TryIdle

AtPc(t, kind, pc) == ix_tasks[t].kind = kind /\ ix_tasks[t].pc = pc

\* ingest_from_jsonl, source missing or without a usable record: return 0
IngestNothing(t) ==
    /\ AtPc(t, "ingest", "start")
    /\ ix_tasks' = [ix_tasks EXCEPT ![t].pc = "done"]
    /\ UNCHANGED <<ix_store, ix_disk, ix_ranked, ix_next, ixRest>>

\* ingest_from_jsonl up to its await: the records are read into the local items
IngestStart(t) ==
    /\ AtPc(t, "ingest", "start")
    /\ \E n \in 1..MaxRows :
         ix_tasks' = [ix_tasks EXCEPT ![t] = Task("ingest", "embedding", Array(ix_next, n))]
    /\ ix_next' = ix_next + 1
    /\ UNCHANGED <<ix_store, ix_disk, ix_ranked, ixRest>>

\* get_embeddings_batch raises: nothing was written
IngestEmbeddingRaises(t) ==
    /\ AtPc(t, "ingest", "embedding")
    /\ ix_tasks' = [ix_tasks EXCEPT ![t].pc = "raised"]
    /\ UNCHANGED <<ix_store, ix_disk, ix_ranked, ix_next, ixRest>>

\* get_embeddings_batch returns one vector per document: the files are
\* written and the store's three fields assigned, with no await in between
IngestFinish(t) ==
    /\ AtPc(t, "ingest", "embedding")
    /\ LET items == ix_tasks[t].items
           vectors == Array(items.ingest, items.len)
       IN /\ ix_disk' = [state |-> "ok", json |-> items, vec |-> vectors]
          /\ ix_store' = StoreAfterIngest(ix_store, items, vectors)
    /\ ix_tasks' = [ix_tasks EXCEPT ![t].pc = "done"]
    /\ UNCHANGED <<ix_ranked, ix_next, ixRest>>

\* suggest_links up to its await; a call that returns the required links
\* ranks nothing.  The task keeps the metadata it saw at the test.
SuggestStart(t) ==
    /\ AtPc(t, "suggest", "start")
    /\ LET store == _ensure_loaded_arrays(ix_store, ix_disk)
       IN /\ ix_store' = store
          /\ ix_tasks' = [ix_tasks EXCEPT ![t] =
                IF ~store.loaded \/ store.vectors = NoArray \/ store.items.len = 0
                THEN Task("suggest", "done", store.items)
                ELSE Task("suggest", "embedding", store.items)]
    /\ UNCHANGED <<ix_disk, ix_ranked, ix_next, ixRest>>

\* get_embedding raises
SuggestEmbeddingRaises(t) ==
    /\ AtPc(t, "suggest", "embedding")
    /\ ix_tasks' = [ix_tasks EXCEPT ![t].pc = "raised"]
    /\ UNCHANGED <<ix_store, ix_disk, ix_ranked, ix_next, ixRest>>

\* get_embedding returns: the similarities are taken from self._vectors and
\* the candidates from self._items as they are now
SuggestRank(t) ==
    /\ AtPc(t, "suggest", "embedding")
    /\ ix_ranked' = Append(ix_ranked,
          [task |-> t, items |-> ix_store.items, vectors |-> ix_store.vectors])
    /\ ix_tasks' = [ix_tasks EXCEPT ![t].pc = "done"]
    /\ UNCHANGED <<ix_store, ix_disk, ix_next, ixRest>>

IxNext ==
    \E t \in 1..MaxTasks :
        \/ IngestNothing(t)
        \/ IngestStart(t)
        \/ IngestEmbeddingRaises(t)
        \/ IngestFinish(t)
        \/ SuggestStart(t)
        \/ SuggestEmbeddingRaises(t)
        \/ SuggestRank(t)

SpecStore == IxInit /\ [][IxNext]_vars

SameIngest(items, vectors) ==
    /\ vectors # NoArray
    /\ items.ingest = vectors.ingest
    /\ items.len = vectors.len

RankedAgainstOneIngest ==
    \A i \in 1..Len(ix_ranked) : SameIngest(ix_ranked[i].items, ix_ranked[i].vectors)

StaysLoaded == ix_store.loaded => ix_store'.loaded

\* C30: with ingest_from_jsonl and suggest_links interleaving only at their
\* awaited embedding calls, every suggest_links call ranks against metadata
\* and vectors of equal length that come from the same ingest, and a store
\* that is loaded stays loaded.
C30_ArraysFromOneIngest == []RankedAgainstOneIngest /\ [][StaysLoaded]_vars

\* a call that loaded the index of the files, and ranked against the arrays
\* of an ingest that finished while the call awaited its embedding
C30_Witness ==
    \E i \in 1..Len(ix_ranked) :
        /\ ix_tasks[ix_ranked[i].task].items = Array(0, 1)
        /\ ix_ranked[i].items = Array(1, 2)
        /\ ix_ranked[i].vectors = Array(1, 2)

=============================================================================
